---- MODULE Spec2Model ----
(***************************************************************************)
(* Advective reconstruction engine of pyrticle (src/cpp/rec_advective.hpp) *)
(* as a state machine: the packed state-vector allocator, the per-particle *)
(* patches of active elements, the flux computation with its dynamic       *)
(* activation, and the upkeep (retirement) pass.                           *)
(*                                                                         *)
(* Indices are zero-based as in the C++ code; a TLA+ sequence s models a   *)
(* vector v by v[i] = s[i+1].                                              *)
(***************************************************************************)
EXTENDS Integers, Sequences, FiniteSets

(***************************************************************************)
(* Bounds of the model.                                                    *)
(***************************************************************************)
\* cap on the number of slabs the allocator has handed out or holds free
MaxSlabs == 4
\* cap on the number of advected particles the host registers
MaxParticles == 1
MaxHostParticles == 2
MaxUnderflow == 1
\* number of elements of the one-dimensional mesh
NumElements == 3
\* the host's right-hand sides keep the DOF values in 0 .. MaxDof
MaxDof == 1

\* the largest value the rhs steps of a host raise an entry of rho to
MaxRho == 1

(***************************************************************************)
(* Configuration (constructor arguments of advective_reconstructor).       *)
(***************************************************************************)
max_faces == 4
m_faces_per_element == 2
m_dofs_per_element == 2

\* An unsigned value is held by its 32-bit two's-complement reading: 2^32 - 1
\* is -1, so that +, -, * and = are those of arithmetic modulo 2^32 on every
\* value the model reaches; UnsignedLess is the unsigned order on them.
UnsignedLess(a, b) ==
  IF (a < 0) = (b < 0) THEN a < b ELSE b < 0

\* value of an entry of a freshly constructed dyn_vector: indeterminate
Uninit == -1000

\* a py_matrix, row-major; the default filter matrix has no rows and columns
Matrix(size1, size2, data) == [size1 |-> size1, size2 |-> size2, data |-> data]
NoFilter == Matrix(0, 0, <<>>)

DofVals == 0 .. MaxDof

\* std::vector::erase of the element at position k (1-based)
RemoveAt(s, k) == [i \in 1 .. (Len(s) - 1) |-> IF i < k THEN s[i] ELSE s[i + 1]]

Abs(x) == IF x < 0 THEN 0 - x ELSE x
Min(a, b) == IF a < b THEN a ELSE b
Max(a, b) == IF a < b THEN b ELSE a

(***************************************************************************)
(* State.                                                                  *)
(***************************************************************************)
VARIABLES
  active_elements,      \* advective_state::active_elements
  freelist,             \* advective_state::freelist
  rho,                  \* advective_state::rho
  advected_particles,   \* advective_state::advected_particles
  charges,              \* ParticleState::charges, one per advected particle
  m_activation_threshold,
  m_kill_threshold,
  m_upwind_alpha,
  m_filter_matrix,      \* advective_reconstructor::m_filter_matrix
  held,                 \* the offsets a direct caller of allocate_element holds
  ub,                   \* an out-of-range access of rho has been executed
  last                  \* the call the host made last, for a host that keeps it

config == <<m_activation_threshold, m_kill_threshold, m_upwind_alpha, m_filter_matrix>>
vars == <<active_elements, freelist, rho, advected_particles, charges, config, held, ub,
         last>>

\* the allocator's part of advective_state, as one value
AllocState == [active_elements |-> active_elements, freelist |-> freelist, rho |-> rho]

(***************************************************************************)
(* advective_state::resize                                                 *)
(***************************************************************************)
\* a resize that copies nothing of the old vector
resize_fresh(r, new_size) == [i \in 1 .. new_size |-> Uninit]

resize(r, new_size) ==
  LET old_size == Len(r)
      copy_size == Min(new_size, old_size)
  IN [i \in 1..new_size |-> IF i <= copy_size THEN r[i] ELSE Uninit]

(***************************************************************************)
(* allocate_element: the new allocator state and the returned start index. *)
(***************************************************************************)
\* allocate_element without line 466, the pop_back: the slab stays on the
\* free list
allocate_element_no_pop(as) ==
  IF Len(as.freelist) # 0
  THEN [as |-> [as EXCEPT !.active_elements = as.active_elements + 1],
        result |-> as.freelist[Len(as.freelist)] * m_dofs_per_element,
        resized |-> FALSE]
  ELSE LET avl_space == Len(as.rho) \div m_dofs_per_element
           grow == as.active_elements = avl_space
           rho1 == IF grow THEN resize(as.rho, 2 * Len(as.rho)) ELSE as.rho
       IN [as |-> [as EXCEPT !.active_elements = as.active_elements + 1, !.rho = rho1],
           result |-> as.active_elements * m_dofs_per_element,
           resized |-> grow]

\* allocate_element that takes the oldest entry of the free list
allocate_element_fifo(as) ==
  IF Len(as.freelist) # 0
  THEN [as |-> [as EXCEPT !.active_elements = as.active_elements + 1,
                          !.freelist = Tail(as.freelist)],
        result |-> as.freelist[1] * m_dofs_per_element,
        resized |-> FALSE]
  ELSE allocate_element_no_pop(as)

allocate_element(as) ==
  IF Len(as.freelist) # 0
  THEN [as |-> [as EXCEPT !.active_elements = as.active_elements + 1,
                          !.freelist = SubSeq(as.freelist, 1, Len(as.freelist) - 1)],
        result |-> as.freelist[Len(as.freelist)] * m_dofs_per_element,
        resized |-> FALSE]
  ELSE LET avl_space == Len(as.rho) \div m_dofs_per_element
           grow == as.active_elements = avl_space
           rho1 == IF grow THEN resize(as.rho, 2 * Len(as.rho)) ELSE as.rho
       IN [as |-> [as EXCEPT !.active_elements = as.active_elements + 1,
                             !.rho = rho1],
           result |-> as.active_elements * m_dofs_per_element,
           resized |-> grow]

\* deallocate_element that puts the start index on the free list, not the
\* element index
deallocate_element_pushes_offset(as, start_index) ==
  IF start_index % m_dofs_per_element # 0
  THEN [ok |-> FALSE, as |-> as, kill_ticks |-> 0, note_reset |-> <<>>]
  ELSE LET el_index == start_index \div m_dofs_per_element
           act == as.active_elements - 1
           fl == IF el_index # act + Len(as.freelist)
                 THEN Append(as.freelist, start_index)
                 ELSE as.freelist
       IN [ok |-> TRUE, as |-> [as EXCEPT !.active_elements = act, !.freelist = fl],
           kill_ticks |-> 1, note_reset |-> <<start_index, m_dofs_per_element>>]

\* deallocate_element that counts the element and ticks the kill counter
\* before it looks at the alignment
deallocate_element_tick_first(as, start_index) ==
  LET el_index == start_index \div m_dofs_per_element
      act == as.active_elements - 1
      fl == IF el_index # act + Len(as.freelist)
            THEN Append(as.freelist, el_index)
            ELSE as.freelist
  IN IF start_index % m_dofs_per_element # 0
     THEN [ok |-> FALSE, as |-> [as EXCEPT !.active_elements = act],
           kill_ticks |-> 1, note_reset |-> <<>>]
     ELSE [ok |-> TRUE, as |-> [as EXCEPT !.active_elements = act, !.freelist = fl],
           kill_ticks |-> 1, note_reset |-> <<start_index, m_dofs_per_element>>]

(***************************************************************************)
(* deallocate_element: ok = FALSE is the runtime_error on a misaligned     *)
(* start index, which leaves the state alone.  kill_ticks counts the ticks *)
(* of m_element_kill_counter, note_reset holds the arguments of the reset  *)
(* notification sent to rho_dof_shift_listener, <<>> when none is sent.    *)
(***************************************************************************)
\* a deallocate_element that puts no slab on the free list
deallocate_element_never_pushes(as, start_index) ==
  IF start_index % m_dofs_per_element # 0
  THEN [ok |-> FALSE, as |-> as, kill_ticks |-> 0, note_reset |-> <<>>]
  ELSE [ok |-> TRUE, as |-> [as EXCEPT !.active_elements = @ - 1],
        kill_ticks |-> 1, note_reset |-> <<start_index, m_dofs_per_element>>]

deallocate_element(as, start_index) ==
  IF start_index % m_dofs_per_element # 0
  THEN [ok |-> FALSE, as |-> as, kill_ticks |-> 0, note_reset |-> <<>>]
  ELSE LET el_index == start_index \div m_dofs_per_element
           act == as.active_elements - 1
           fl == IF el_index # act + Len(as.freelist)
                 THEN Append(as.freelist, el_index)
                 ELSE as.freelist
       IN [ok |-> TRUE, as |-> [as EXCEPT !.active_elements = act, !.freelist = fl],
           kill_ticks |-> 1, note_reset |-> <<start_index, m_dofs_per_element>>]

(***************************************************************************)
(* The mesh collaborator (mesh_data, hedge::face_group): a one-dimensional *)
(* chain of NumElements two-node elements.  Face 0 of an element is its    *)
(* left end (normal -1), face 1 its right end (normal +1); the two ends of *)
(* the chain are boundary faces.                                           *)
(***************************************************************************)
INVALID_ELEMENT == -1
Elements == 0 .. (NumElements - 1)
Faces == 0 .. (m_faces_per_element - 1)

\* element_info::m_faces[fn].m_neighbor
m_neighbor(en, fn) ==
  IF fn = 0
  THEN (IF en = 0 THEN INVALID_ELEMENT ELSE en - 1)
  ELSE (IF en = NumElements - 1 THEN INVALID_ELEMENT ELSE en + 1)

\* element_info::m_jacobian
m_jacobian(en) == 1

\* hedge::face_pair::side of (en, fn): normal, face jacobian, index list
Side(en, fn) ==
  [element_id |-> en, face_id |-> fn,
   normal |-> IF fn = 0 THEN -1 ELSE 1,
   face_jacobian |-> 1,
   index_list |-> << IF fn = 0 THEN 0 ELSE m_dofs_per_element - 1 >>]

NoSide ==
  [element_id |-> INVALID_ELEMENT, face_id |-> 0, normal |-> 0,
   face_jacobian |-> 0, index_list |-> <<0>>]

\* int_face_group->face_pairs: loc is the right face of en, opp the left face
\* of en + 1
int_face_pairs ==
  { [loc |-> Side(en, 1), opp |-> Side(en + 1, 0)] : en \in 0 .. (NumElements - 2) }

\* bdry_face_group->face_pairs: opp is unpopulated
bdry_face_pairs ==
  { [loc |-> Side(0, 0), opp |-> NoSide],
    [loc |-> Side(NumElements - 1, 1), opp |-> NoSide] }

\* m_el_face_to_face_pair_locator, as the constructor builds it
face_pair_keys(fp) ==
  IF fp \in int_face_pairs
  THEN { <<fp.loc.element_id, fp.loc.face_id>>, <<fp.opp.element_id, fp.opp.face_id>> }
  ELSE { <<fp.loc.element_id, fp.loc.face_id>> }

face_pair_locator(en, fn) ==
  { fp \in int_face_pairs \cup bdry_face_pairs : <<en, fn>> \in face_pair_keys(fp) }

\* m_face_mass_matrix (1 x 1) and m_integral_weights = mass_matrix * ones
m_face_mass_matrix(i, j) == 1
face_length == 1
m_integral_weights == [i \in 1 .. m_dofs_per_element |-> 1]

(***************************************************************************)
(* A double is held as a fraction <<numerator, denominator>> with a        *)
(* positive denominator.                                                   *)
(***************************************************************************)
Num(q) == q[1]
Den(q) == q[2]
IsZero(q) == Num(q) = 0

\* the thresholds and the upwind blend the model constructs the engine with
ActivationThreshold == <<1, 2>>
KillThreshold == <<1, 2>>
UpwindAlpha == <<1, 2>>

\* the protective life of a dynamically activated element
ProtectiveMinLife == 10

(***************************************************************************)
(* active_element and advected_particle                                    *)
(***************************************************************************)
NoConnections == [i \in 1 .. max_faces |-> INVALID_ELEMENT]

\* an active_element whose min_life stays zero
new_active_element_unprotected(en, start, life) ==
  [m_id |-> en, m_connections |-> NoConnections,
   m_start_index |-> start, m_min_life |-> 0]

\* a new active_element (lines 60-74, 581-583, 861-878)
new_active_element(en, start, life) ==
  [m_id |-> en, m_connections |-> NoConnections,
   m_start_index |-> start, m_min_life |-> life]

\* advected_particle::find_element: the index (1-based) of the first element
\* with id en, 0 for the null pointer
find_element(p, en) ==
  IF en = INVALID_ELEMENT
  THEN 0
  ELSE LET hits == { i \in 1 .. Len(p.m_elements) : p.m_elements[i].m_id = en }
       IN IF hits = {} THEN 0 ELSE CHOOSE i \in hits : \A j \in hits : i <= j

\* subrange(rho, start, start + dofs_per_element) lies inside rho
InRho(r, start) == start >= 0 /\ start + m_dofs_per_element <= Len(r)

slab(r, start) == [i \in 1 .. m_dofs_per_element |-> r[start + i]]

\* a slab write that overwrites every slab of r
set_slab_whole(r, start, vals) ==
  [i \in 1 .. Len(r) |-> vals[((i - 1) % m_dofs_per_element) + 1]]

set_slab(r, start, vals) ==
  [i \in 1 .. Len(r) |->
     IF i > start /\ i <= start + m_dofs_per_element THEN vals[i - start] ELSE r[i]]

RECURSIVE SumSeq(_)
SumSeq(s) == IF s = <<>> THEN 0 ELSE s[1] + SumSeq(Tail(s))

\* element_integral and element_l1
element_integral(jacobian, ve) ==
  jacobian * SumSeq([i \in 1 .. Len(ve) |-> m_integral_weights[i] * ve[i]])

element_l1(jacobian, ve) ==
  jacobian * SumSeq([i \in 1 .. Len(ve) |-> m_integral_weights[i] * Abs(ve[i])])

(***************************************************************************)
(* The engine's loops run on a record st of the state they change:         *)
(*   as     the allocator state (active_elements, freelist, rho)           *)
(*   parts  advected_particles                                             *)
(*   ub     an access outside rho, or through a null element pointer, has  *)
(*          been executed                                                  *)
(*   err    a runtime_error has been thrown: the call ends there and the   *)
(*          changes made so far stay                                       *)
(*   capped the call needs more slabs than the model's MaxSlabs            *)
(***************************************************************************)
EngineState ==
  [as |-> AllocState, parts |-> advected_particles,
   ub |-> FALSE, err |-> FALSE, capped |-> FALSE]

Stopped(st) == st.ub \/ st.err \/ st.capped

\* x / y < q for doubles x >= 0, y >= 0: x / 0 is +inf or NaN, and neither
\* is below q
RatioBelow(x, y, q) ==
  IF y = 0 THEN FALSE ELSE x * Den(q) < Num(q) * y

(***************************************************************************)
(* perform_reconstructor_upkeep                                            *)
(***************************************************************************)
\* the retirement test without its min_life condition
retire_test_any_life(min_life, element_charge, particle_charge, kill_threshold) ==
  RatioBelow(element_charge, particle_charge, kill_threshold)

\* the retirement test of line 359
retire_test(min_life, element_charge, particle_charge, kill_threshold) ==
  min_life = 0 /\ RatioBelow(element_charge, particle_charge, kill_threshold)

\* a sibling that keeps its connection to the retiring element
forget_connection_kept(connected_el, en) == connected_el

\* lines 372-376: connected_el forgets en
forget_connection(connected_el, en) ==
  [connected_el EXCEPT !.m_connections =
     [cfn \in 1 .. max_faces |->
        IF cfn <= m_faces_per_element /\ connected_el.m_connections[cfn] = en
        THEN INVALID_ELEMENT
        ELSE connected_el.m_connections[cfn]]]

\* lines 365-378: the retiring element p.m_elements[i_el] is forgotten by
\* every element it is connected to
RECURSIVE kill_connections(_, _, _)
kill_connections(r, i_el, fn) ==
  IF r.ub \/ fn >= m_faces_per_element
  THEN r
  ELSE LET el == r.p.m_elements[i_el + 1]
           connected_en == el.m_connections[fn + 1]
           k == find_element(r.p, connected_en)
       IN IF connected_en = INVALID_ELEMENT
          THEN kill_connections(r, i_el, fn + 1)
          ELSE IF k = 0
               THEN [r EXCEPT !.ub = TRUE]
               ELSE kill_connections(
                      [r EXCEPT !.p.m_elements[k] =
                                   forget_connection(r.p.m_elements[k], el.m_id)],
                      i_el, fn + 1)

\* the index the element loop of lines 345-387 visits after i_el
upkeep_next_index(i_el, retired) == IF retired THEN i_el + 1 ELSE (i_el + 1) + 1

\* lines 345-387, for the particle at position pn (1-based) from element i_el on
RECURSIVE upkeep_elements(_, _, _, _, _)
upkeep_elements(st, pn, i_el, particle_charge, kill_threshold) ==
  IF Stopped(st) \/ i_el >= Len(st.parts[pn].m_elements)
  THEN st
  ELSE LET el0 == st.parts[pn].m_elements[i_el + 1]
           el == [el0 EXCEPT !.m_min_life = IF @ # 0 THEN @ - 1 ELSE @]
           st1 == [st EXCEPT !.parts[pn].m_elements[i_el + 1] = el]
       IN IF ~InRho(st1.as.rho, el.m_start_index)
          THEN [st1 EXCEPT !.ub = TRUE]
          ELSE LET element_charge ==
                     element_l1(m_jacobian(el.m_id), slab(st1.as.rho, el.m_start_index))
               IN IF retire_test(el.m_min_life, element_charge, particle_charge,
                                 kill_threshold)
                  THEN LET k == kill_connections([p |-> st1.parts[pn], ub |-> FALSE],
                                                 i_el, 0)
                           d == deallocate_element(st1.as, el.m_start_index)
                       IN IF k.ub
                          THEN [st1 EXCEPT !.parts[pn] = k.p, !.ub = TRUE]
                          ELSE IF ~d.ok
                               THEN [st1 EXCEPT !.parts[pn] = k.p, !.err = TRUE]
                               ELSE upkeep_elements(
                                      [st1 EXCEPT
                                         !.parts[pn].m_elements =
                                            RemoveAt(k.p.m_elements, i_el + 1),
                                         !.as = d.as],
                                      pn, upkeep_next_index(i_el, TRUE),
                                      particle_charge, kill_threshold)
                  ELSE upkeep_elements(st1, pn, upkeep_next_index(i_el, FALSE),
                                       particle_charge, kill_threshold)

\* lines 341-390: the particles in order
RECURSIVE upkeep_particles(_, _, _, _)
upkeep_particles(st, pn, chg, kill_threshold) ==
  IF Stopped(st) \/ pn > Len(st.parts)
  THEN st
  ELSE upkeep_particles(
         upkeep_elements(st, pn, 0, Abs(chg[pn]), kill_threshold),
         pn + 1, chg, kill_threshold)

\* the upkeep without the test of line 338
perform_reconstructor_upkeep_unchecked(st, chg, kill_threshold) ==
  upkeep_particles(st, 1, chg, kill_threshold)

\* lines 332-391
perform_reconstructor_upkeep(st, chg, kill_threshold) ==
  IF IsZero(kill_threshold)
  THEN [st EXCEPT !.err = TRUE]
  ELSE upkeep_particles(st, 1, chg, kill_threshold)

(***************************************************************************)
(* add_advective_particle                                                  *)
(***************************************************************************)
\* advected_particle_element_target::add_shape_on_element: r.p is the new
\* particle, vals the shape function sampled at the nodes of element en
add_shape_on_element(r, en, vals) ==
  IF r.st.as.active_elements + Len(r.st.as.freelist) >= MaxSlabs
  THEN [r EXCEPT !.st.capped = TRUE]
  ELSE LET a == allocate_element(r.st.as)
           start == a.result
       IN IF ~InRho(a.as.rho, start)
          THEN [r EXCEPT !.st.as = a.as, !.st.ub = TRUE]
          ELSE [r EXCEPT
                  !.st.as = [a.as EXCEPT !.rho = set_slab(a.as.rho, start, vals)],
                  !.p.m_elements = Append(@, new_active_element(en, start, 0))]

\* element_finder that stops after the first covering element
el_finder_first_only(r, covering, samples, k) ==
  IF Stopped(r.st) \/ k > Len(covering)
  THEN r
  ELSE add_shape_on_element(r, covering[k], samples[k])

\* element_finder: add_shape_on_element for the covering elements in order
RECURSIVE el_finder(_, _, _, _)
el_finder(r, covering, samples, k) ==
  IF Stopped(r.st) \/ k > Len(covering)
  THEN r
  ELSE el_finder(add_shape_on_element(r, covering[k], samples[k]),
                 covering, samples, k + 1)

\* no connections made
make_connections_none(p) == p

\* connections made through face 0 only
make_connections_first_face(p) ==
  [p EXCEPT !.m_elements =
     [i \in 1 .. Len(p.m_elements) |->
        [p.m_elements[i] EXCEPT !.m_connections =
           [c \in 1 .. max_faces |->
              IF c = 1 /\ find_element(p, m_neighbor(p.m_elements[i].m_id, c - 1)) # 0
              THEN m_neighbor(p.m_elements[i].m_id, c - 1)
              ELSE p.m_elements[i].m_connections[c]]]]]

\* lines 618-630: an element is connected through face fn when the
\* neighbour across fn is in the new particle
make_connections(p) ==
  [p EXCEPT !.m_elements =
     [i \in 1 .. Len(p.m_elements) |->
        [p.m_elements[i] EXCEPT !.m_connections =
           [c \in 1 .. max_faces |->
              IF c <= m_faces_per_element
                 /\ find_element(p, m_neighbor(p.m_elements[i].m_id, c - 1)) # 0
              THEN m_neighbor(p.m_elements[i].m_id, c - 1)
              ELSE p.m_elements[i].m_connections[c]]]]]

\* lines 632-643
total_unscaled_mass(p, r) ==
  SumSeq([i \in 1 .. Len(p.m_elements) |->
            element_integral(m_jacobian(p.m_elements[i].m_id),
                             slab(r, p.m_elements[i].m_start_index))])

\* the scale is the bare charge, whatever the unscaled mass is
scaled_value_bare_charge(x, charge, mass) == x * charge

\* lines 645-659: every slab of the new particle times scale, where scale is
\* charge if the unscaled mass is zero and charge / mass otherwise
scaled_value(x, charge, mass) ==
  IF mass = 0 THEN x * charge ELSE (x * charge) \div mass

RECURSIVE scale_slabs(_, _, _, _, _)
scale_slabs(r, p, k, charge, mass) ==
  IF k > Len(p.m_elements)
  THEN r
  ELSE LET start == p.m_elements[k].m_start_index
           old == slab(r, start)
       IN scale_slabs(
            set_slab(r, start,
                     [i \in 1 .. m_dofs_per_element |-> scaled_value(old[i], charge, mass)]),
            p, k + 1, charge, mass)

\* warning_listener::warn (tools.hpp lines 325-335): the registered
\* listener notes the warning, and with no listener registered the call
\* throws
warn(listener) == [warned |-> listener, err |-> ~listener]

\* add_advective_particle without the sequence test of lines 607-608
add_advective_particle_any_pn(st, sf, covering, samples, charge, pn, listener) ==
  LET f == el_finder([st |-> st,
                      p |-> [m_shape_function |-> sf, m_elements |-> <<>>]],
                     covering, samples, 1)
  IN IF Stopped(f.st)
     THEN [st |-> f.st, total_unscaled_mass |-> 0, warned |-> FALSE]
     ELSE LET p == make_connections(f.p)
              mass == total_unscaled_mass(p, f.st.as.rho)
          IN [st |-> [f.st EXCEPT
                        !.as.rho = scale_slabs(@, p, 1, charge, mass),
                        !.parts = Append(@, p)],
              total_unscaled_mass |-> mass, warned |-> mass = 0]

\* lines 602-662: pn is the particle number the host passes, listener
\* whether a warning_listener is registered.  The record holds the state
\* the call leaves, the unscaled mass it computed and whether it warned.
add_advective_particle(st, sf, covering, samples, charge, pn, listener) ==
  IF pn # Len(st.parts)
  THEN [st |-> [st EXCEPT !.err = TRUE], total_unscaled_mass |-> 0, warned |-> FALSE]
  ELSE LET f == el_finder([st |-> st,
                           p |-> [m_shape_function |-> sf, m_elements |-> <<>>]],
                          covering, samples, 1)
       IN IF Stopped(f.st)
          THEN [st |-> f.st, total_unscaled_mass |-> 0, warned |-> FALSE]
          ELSE LET p == make_connections(f.p)
                   mass == total_unscaled_mass(p, f.st.as.rho)
                   w == IF mass = 0 THEN warn(listener)
                        ELSE [warned |-> FALSE, err |-> FALSE]
               IN IF w.err
                  THEN [st |-> [f.st EXCEPT !.err = TRUE],
                        total_unscaled_mass |-> mass, warned |-> FALSE]
                  ELSE [st |-> [f.st EXCEPT
                                  !.as.rho = scale_slabs(@, p, 1, charge, mass),
                                  !.parts = Append(@, p)],
                        total_unscaled_mass |-> mass, warned |-> w.warned]

(***************************************************************************)
(* calculate_fluxes.  The accumulator holds 2 * Den(m_upwind_alpha) times  *)
(* the flux, so that the blended coefficients are whole numbers.           *)
(***************************************************************************)
\* lines 791-818: the face pair of (en, fn) and the side en is on
face_lookup(en, fn) ==
  LET found == face_pair_locator(en, fn)
      fp == CHOOSE x \in found : TRUE
      is_face_b == en # fp.loc.element_id
      is_boundary == fp.opp.element_id = INVALID_ELEMENT
  IN IF found = {}
     THEN [err |-> TRUE]
     ELSE IF (is_boundary /\ is_face_b) \/ (is_face_b /\ en # fp.opp.element_id)
          THEN [err |-> TRUE]
          ELSE [err |-> FALSE,
                is_boundary |-> is_boundary,
                flux_face |-> IF is_face_b THEN fp.opp ELSE fp.loc,
                opposite_flux_face |-> IF is_face_b THEN fp.loc ELSE fp.opp]

\* the interior coefficient without its factor -n.v
int_coeff_no_velocity(face_jacobian, n_dot_v, inflow, alpha) ==
  face_jacobian
    * (2 * Num(alpha) * (1 - (IF inflow THEN 0 ELSE 1)) + (Den(alpha) - Num(alpha)))

\* lines 828-837, times 2 * Den(alpha)
int_coeff(face_jacobian, n_dot_v, inflow, alpha) ==
  face_jacobian * (0 - n_dot_v)
    * (2 * Num(alpha) * (1 - (IF inflow THEN 0 ELSE 1)) + (Den(alpha) - Num(alpha)))

ext_coeff(face_jacobian, n_dot_v, inflow, alpha) ==
  face_jacobian * (0 - n_dot_v)
    * (2 * Num(alpha) * (0 - (IF inflow THEN 1 ELSE 0)) - (Den(alpha) - Num(alpha)))

\* lines 846-849: the largest |DOF| on the face trace
RECURSIVE max_density(_, _, _, _)
max_density(r, this_base_idx, idx_list, i) ==
  IF i >= face_length
  THEN 0
  ELSE Max(Abs(r[this_base_idx + idx_list[i + 1] + 1]),
           max_density(r, this_base_idx, idx_list, i + 1))

\* the activation test with >= in place of >
activation_test_not_strict(density, shape_peak, activation_threshold) ==
  density * Den(activation_threshold) >= Num(activation_threshold) * Abs(shape_peak)

\* line 852: max_density > m_activation_threshold * fabs(shape_peak)
activation_test(density, shape_peak, activation_threshold) ==
  density * Den(activation_threshold) > Num(activation_threshold) * Abs(shape_peak)

\* lines 915-919: the first face of opp_neigh_en whose neighbour is opp_en,
\* the number of faces when there is none
opp_index_in_opp_neigh(opp_neigh_en, opp_en) ==
  LET hits == { f \in Faces : m_neighbor(opp_neigh_en, f) = opp_en }
  IN IF hits = {} THEN m_faces_per_element ELSE CHOOSE f \in hits : \A g \in hits : f <= g

\* line 924: opp_neigh_el learns that opp_en is across its face back
tell_opp_neigh(opp_neigh_el, back, opp_en) ==
  [opp_neigh_el EXCEPT !.m_connections[back + 1] = opp_en]

\* connections made with the first active neighbour of opp only
update_connections_first_found(r, opp_fn) ==
  LET opp_en == r.opp.m_id
      found == { fn \in Faces : find_element(r.p, m_neighbor(opp_en, fn)) # 0 }
  IN IF found = {}
     THEN r
     ELSE LET fn == CHOOSE x \in found : \A y \in found : x <= y
              opp_neigh_en == m_neighbor(opp_en, fn)
          IN [r EXCEPT
                !.opp.m_connections[fn + 1] = opp_neigh_en,
                !.p.m_elements[find_element(r.p, opp_neigh_en)] =
                   tell_opp_neigh(@, opp_index_in_opp_neigh(opp_neigh_en, opp_en), opp_en)]

\* lines 881-928: r.p is the particle, r.opp the element being activated
RECURSIVE update_connections(_, _)
update_connections(r, opp_fn) ==
  IF r.err \/ opp_fn >= m_faces_per_element
  THEN r
  ELSE LET opp_en == r.opp.m_id
           opp_neigh_en == m_neighbor(opp_en, opp_fn)
           k == find_element(r.p, opp_neigh_en)
           back == opp_index_in_opp_neigh(opp_neigh_en, opp_en)
       IN IF k = 0
          THEN update_connections(r, opp_fn + 1)
          ELSE IF back = m_faces_per_element
               THEN [r EXCEPT !.opp.m_connections[opp_fn + 1] = opp_neigh_en,
                              !.err = TRUE]
               ELSE update_connections(
                      [r EXCEPT !.opp.m_connections[opp_fn + 1] = opp_neigh_en,
                                !.p.m_elements[k] = tell_opp_neigh(@, back, opp_en)],
                      opp_fn + 1)

\* the grown accumulator starts again from zero
grow_fluxes_cleared(fluxes, size) ==
  IF size # Len(fluxes)
  THEN [i \in 1 .. size |-> 0]
  ELSE fluxes

\* lines 868-876: the accumulator follows the size of rho
grow_fluxes(fluxes, size) ==
  IF size # Len(fluxes)
  THEN [i \in 1 .. size |-> IF i <= Len(fluxes) THEN fluxes[i] ELSE 0]
  ELSE fluxes

\* an activation that leaves the new slab as allocate_element handed it out
activate_unzeroed(r, pn, opp_en) ==
  IF r.st.as.active_elements + Len(r.st.as.freelist) >= MaxSlabs
  THEN [r EXCEPT !.st.capped = TRUE]
  ELSE LET a == allocate_element(r.st.as)
           start == a.result
       IN IF ~InRho(a.as.rho, start)
          THEN [r EXCEPT !.st.as = a.as, !.st.ub = TRUE]
          ELSE LET u == update_connections(
                          [p |-> r.st.parts[pn],
                           opp |-> new_active_element(opp_en, start, ProtectiveMinLife),
                           err |-> FALSE], 0)
               IN [r EXCEPT
                     !.st.as = a.as,
                     !.fluxes = grow_fluxes(@, Len(a.as.rho)),
                     !.st.parts[pn] =
                        IF u.err THEN u.p
                        ELSE [u.p EXCEPT !.m_elements = Append(@, u.opp)],
                     !.st.err = u.err]

\* lines 854-937: activate the element across the face
activate(r, pn, opp_en) ==
  IF r.st.as.active_elements + Len(r.st.as.freelist) >= MaxSlabs
  THEN [r EXCEPT !.st.capped = TRUE]
  ELSE LET a == allocate_element(r.st.as)
           start == a.result
       IN IF ~InRho(a.as.rho, start)
          THEN [r EXCEPT !.st.as = a.as, !.st.ub = TRUE]
          ELSE LET rho1 == set_slab(a.as.rho, start,
                                    [i \in 1 .. m_dofs_per_element |-> 0])
                   u == update_connections(
                          [p |-> r.st.parts[pn],
                           opp |-> new_active_element(opp_en, start, ProtectiveMinLife),
                           err |-> FALSE], 0)
               IN [r EXCEPT
                     !.st.as = [a.as EXCEPT !.rho = rho1],
                     !.fluxes = grow_fluxes(@, Len(rho1)),
                     !.st.parts[pn] =
                        IF u.err THEN u.p
                        ELSE [u.p EXCEPT !.m_elements = Append(@, u.opp)],
                     !.st.err = u.err]

\* lines 957-979: the face term between two active elements, for trace node i
RECURSIVE active_face_sum(_, _, _, _, _, _, _, _)
active_face_sum(r, this_base_idx, opp_base_idx, idx_list, opp_idx_list, ic, ec, ij) ==
  LET i == ij[1]
      j == ij[2]
  IN IF j >= face_length
     THEN 0
     ELSE r[this_base_idx + idx_list[j + 1] + 1] * ic * m_face_mass_matrix(i, j)
          + r[opp_base_idx + opp_idx_list[j + 1] + 1] * ec * m_face_mass_matrix(i, j)
          + active_face_sum(r, this_base_idx, opp_base_idx, idx_list, opp_idx_list,
                            ic, ec, <<i, j + 1>>)

\* the face term taken from the nodes at the far end of the slab, not from
\* the face trace
inflow_face_sum_far_end(r, this_base_idx, idx_list, ic, i, j) ==
  SumSeq([n \in 1 .. face_length |->
            r[this_base_idx + (m_dofs_per_element - 1 - idx_list[n]) + 1] * ic
              * m_face_mass_matrix(i, n - 1)])

\* lines 985-1001: the face term of an inflow face with no active neighbour
RECURSIVE inflow_face_sum(_, _, _, _, _, _)
inflow_face_sum(r, this_base_idx, idx_list, ic, i, j) ==
  IF j >= face_length
  THEN 0
  ELSE r[this_base_idx + idx_list[j + 1] + 1] * ic * m_face_mass_matrix(i, j)
       + inflow_face_sum(r, this_base_idx, idx_list, ic, i, j + 1)

\* fluxes[ili] += the face term, for every trace node i
RECURSIVE accumulate_face(_, _, _, _, _)
accumulate_face(fluxes, this_base_idx, idx_list, term, i) ==
  IF i >= face_length
  THEN fluxes
  ELSE accumulate_face(
         [fluxes EXCEPT ![this_base_idx + idx_list[i + 1] + 1] = @ + term[i + 1]],
         this_base_idx, idx_list, term, i + 1)

\* lines 941-1002, with el refreshed and active as the activation left it
face_fluxes(r, pn, i_el, fn, face, n_dot_v, active, alpha) ==
  LET p == r.st.parts[pn]
      el == p.m_elements[i_el + 1]
      inflow == n_dot_v <= 0
      ic == int_coeff(face.flux_face.face_jacobian, n_dot_v, inflow, alpha)
      ec == ext_coeff(face.flux_face.face_jacobian, n_dot_v, inflow, alpha)
      this_base_idx == el.m_start_index
      idx_list == face.flux_face.index_list
      opp_idx_list == face.opposite_flux_face.index_list
      k == find_element(p, el.m_connections[fn + 1])
  IN IF active
     THEN IF k = 0 \/ ~InRho(r.st.as.rho, this_base_idx)
          THEN [r EXCEPT !.st.ub = TRUE]
          ELSE LET opp_base_idx == p.m_elements[k].m_start_index
               IN IF ~InRho(r.st.as.rho, opp_base_idx)
                  THEN [r EXCEPT !.st.ub = TRUE]
                  ELSE [r EXCEPT !.fluxes =
                          accumulate_face(@, this_base_idx, idx_list,
                            [i \in 1 .. face_length |->
                               active_face_sum(r.st.as.rho, this_base_idx, opp_base_idx,
                                               idx_list, opp_idx_list, ic, ec,
                                               <<i - 1, 0>>)], 0)]
     ELSE IF inflow
          THEN IF ~InRho(r.st.as.rho, this_base_idx)
               THEN [r EXCEPT !.st.ub = TRUE]
               ELSE [r EXCEPT !.fluxes =
                       accumulate_face(@, this_base_idx, idx_list,
                         [i \in 1 .. face_length |->
                            inflow_face_sum(r.st.as.rho, this_base_idx, idx_list,
                                            ic, i - 1, 0)], 0)]
          ELSE r

\* the test of line 842 without its inflow part
may_activate_on_inflow(is_boundary, active, inflow) == ~is_boundary /\ ~active

\* line 842: the face is one across which the neighbour may be activated
may_activate(is_boundary, active, inflow) == ~is_boundary /\ ~active /\ ~inflow

\* lines 768-1003: one face of one element
face_step(r, pn, i_el, fn, v, shape_peak, cfg) ==
  LET el == r.st.parts[pn].m_elements[i_el + 1]
      en == el.m_id
      face == face_lookup(en, fn)
  IN IF face.err
     THEN [r EXCEPT !.st.err = TRUE]
     ELSE LET n_dot_v == v * face.flux_face.normal
              inflow == n_dot_v <= 0
              active == el.m_connections[fn + 1] # INVALID_ELEMENT
              this_base_idx == el.m_start_index
          IN IF face.is_boundary /\ active
             THEN [r EXCEPT !.st.err = TRUE]
             ELSE IF may_activate(face.is_boundary, active, inflow)
                  THEN IF ~InRho(r.st.as.rho, this_base_idx)
                       THEN [r EXCEPT !.st.ub = TRUE]
                       ELSE IF activation_test(
                                 max_density(r.st.as.rho, this_base_idx,
                                             face.flux_face.index_list, 0),
                                 shape_peak, cfg[1])
                            THEN LET r1 == activate(r, pn, face.opposite_flux_face.element_id)
                                 IN IF Stopped(r1.st)
                                    THEN r1
                                    ELSE face_fluxes(r1, pn, i_el, fn, face, n_dot_v,
                                                     TRUE, cfg[3])
                            ELSE face_fluxes(r, pn, i_el, fn, face, n_dot_v, FALSE, cfg[3])
                  ELSE face_fluxes(r, pn, i_el, fn, face, n_dot_v, active, cfg[3])

\* lines 764-1005: the element loop runs to the current end of m_elements
RECURSIVE flux_elements(_, _, _, _, _, _, _)
flux_elements(r, pn, i_el, fn, v, shape_peak, cfg) ==
  IF Stopped(r.st) \/ i_el >= Len(r.st.parts[pn].m_elements)
  THEN r
  ELSE IF fn >= m_faces_per_element
       THEN flux_elements(r, pn, i_el + 1, 0, v, shape_peak, cfg)
       ELSE flux_elements(face_step(r, pn, i_el, fn, v, shape_peak, cfg),
                          pn, i_el, fn + 1, v, shape_peak, cfg)

\* lines 753-1007: the particles in order
RECURSIVE flux_particles(_, _, _, _, _)
flux_particles(r, pn, velocities, chg, cfg) ==
  IF Stopped(r.st) \/ pn > Len(r.st.parts)
  THEN r
  ELSE flux_particles(
         flux_elements(r, pn, 0, 0, velocities[pn],
                       r.st.parts[pn].m_shape_function * chg[pn], cfg),
         pn + 1, velocities, chg, cfg)

calculate_fluxes(st, velocities, chg, cfg) ==
  IF IsZero(cfg[1])
  THEN [st |-> [st EXCEPT !.err = TRUE], fluxes |-> <<>>]
  ELSE flux_particles(
         [st |-> st, fluxes |-> [i \in 1 .. Len(st.as.rho) |-> 0]],
         1, velocities, chg, cfg)

(***************************************************************************)
(* calculate_local_div and apply_elementwise_inverse_mass_matrix.  Both    *)
(* run one gemm over the first active_elements + freelist.size() slabs and *)
(* then visit the elements of every patch.                                 *)
(***************************************************************************)
\* the mesh has one axis (get_dimensions_mesh() == 1); the differentiation
\* matrix of that axis, row i, column j: du/dr = u[1] - u[0] at both nodes
m_local_diff_matrices == [i \in 0 .. 1 |-> [j \in 0 .. 1 |-> IF j = 0 THEN 0 - 1 ELSE 1]]

\* the inverse of the mass matrix ((2/3, 1/3), (1/3, 2/3)), whose rows sum
\* to m_integral_weights
m_inverse_mass_matrix == [i \in 0 .. 1 |-> [j \in 0 .. 1 |-> IF i = j THEN 2 ELSE 0 - 1]]

\* m_inverse_map.matrix()(0, 0) of element en
m_inverse_map(en) == 1

\* lines 674-675 and 1022-1023
active_contiguous_elements(as) == as.active_elements + Len(as.freelist)

\* the gemm reads the first n slabs of its operand and writes the first n
\* slabs of its result
GemmInside(as, n) == n >= 0 /\ n * m_dofs_per_element <= Len(as.rho)

\* no entry of the first n slabs of b is an uninitialised value
GemmDefined(b, n) ==
  \A k \in 1 .. n * m_dofs_per_element : b[k] # Uninit

RECURSIVE gemm_row(_, _, _, _, _)
gemm_row(matrix, b, e, i, j) ==
  IF j >= m_dofs_per_element
  THEN 0
  ELSE matrix[i][j] * b[e * m_dofs_per_element + j + 1]
       + gemm_row(matrix, b, e, i, j + 1)

\* lines 690-703 and 1029-1042: c = matrix * b on the first n slabs, c
\* cleared before; dofs is the length of c
gemm(matrix, n, b, dofs) ==
  [k \in 1 .. dofs |->
     IF (k - 1) \div m_dofs_per_element < n
     THEN gemm_row(matrix, b, (k - 1) \div m_dofs_per_element,
                   (k - 1) % m_dofs_per_element, 0)
     ELSE 0]

\* lines 717-730: local_div[slab of el] += coeff * rst_derivs[slab of el]
local_div_element(r, rst_derivs, el, v) ==
  LET coeff == (0 - v) * m_inverse_map(el.m_id)
      start == el.m_start_index
  IN IF ~InRho(r.local_div, start)
     THEN [r EXCEPT !.ub = TRUE]
     ELSE [r EXCEPT !.local_div =
             [k \in 1 .. Len(@) |->
                IF k > start /\ k <= start + m_dofs_per_element
                THEN @[k] + coeff * rst_derivs[k]
                ELSE @[k]]]

\* lines 708-733: the elements of the patches, in order
RECURSIVE local_div_elements(_, _, _, _, _, _)
local_div_elements(r, rst_derivs, parts, velocities, pn, i_el) ==
  IF r.ub \/ pn > Len(parts)
  THEN r
  ELSE IF i_el >= Len(parts[pn].m_elements)
       THEN local_div_elements(r, rst_derivs, parts, velocities, pn + 1, 0)
       ELSE local_div_elements(
              local_div_element(r, rst_derivs, parts[pn].m_elements[i_el + 1],
                                velocities[pn]),
              rst_derivs, parts, velocities, pn, i_el + 1)

\* lines 668-737
calculate_local_div(st, velocities) ==
  LET dofs == Len(st.as.rho)
      n == active_contiguous_elements(st.as)
      zero == [k \in 1 .. dofs |-> 0]
  IN IF ~GemmInside(st.as, n) \/ ~GemmDefined(st.as.rho, n)
     THEN [ub |-> TRUE, local_div |-> zero]
     ELSE local_div_elements(
            [ub |-> FALSE, local_div |-> zero],
            gemm(m_local_diff_matrices, n, st.as.rho, dofs),
            st.parts, velocities, 1, 0)

\* lines 1045-1053: the slab of every element of every patch times
\* 1 / m_jacobian
RECURSIVE jacobian_scaling(_, _, _, _)
jacobian_scaling(r, parts, pn, i_el) ==
  IF r.ub \/ pn > Len(parts)
  THEN r
  ELSE IF i_el >= Len(parts[pn].m_elements)
       THEN jacobian_scaling(r, parts, pn + 1, 0)
       ELSE LET el == parts[pn].m_elements[i_el + 1]
                start == el.m_start_index
            IN IF ~InRho(r.result, start)
               THEN [r EXCEPT !.ub = TRUE]
               ELSE jacobian_scaling(
                      [r EXCEPT !.result =
                         [k \in 1 .. Len(@) |->
                            IF k > start /\ k <= start + m_dofs_per_element
                            THEN @[k] \div m_jacobian(el.m_id)
                            ELSE @[k]]],
                      parts, pn, i_el + 1)

\* lines 1015-1056
apply_elementwise_inverse_mass_matrix(st, operand) ==
  LET dofs == Len(st.as.rho)
      n == active_contiguous_elements(st.as)
  IN IF ~GemmInside(st.as, n) \/ n * m_dofs_per_element > Len(operand)
     THEN [ub |-> TRUE, result |-> [k \in 1 .. dofs |-> 0]]
     ELSE jacobian_scaling(
            [ub |-> FALSE, result |-> gemm(m_inverse_mass_matrix, n, operand, dofs)],
            st.parts, 1, 0)

\* the accumulator of calculate_fluxes holds FluxScale times the flux
FluxScale == 2 * Den(UpwindAlpha)

\* line 1067: d is the result of calculate_local_div, m that of
\* apply_elementwise_inverse_mass_matrix; rhs holds FluxScale times the
\* difference
rhs_difference(f, d, m) ==
  IF Len(d.local_div) # Len(m.result)
  THEN [st |-> [f.st EXCEPT !.ub = TRUE],
        fluxes |-> f.fluxes, local_div |-> d.local_div, inverse_mass |-> m.result,
        rhs |-> <<>>]
  ELSE [st |-> [f.st EXCEPT !.ub = d.ub \/ m.ub],
        fluxes |-> f.fluxes, local_div |-> d.local_div, inverse_mass |-> m.result,
        rhs |-> [k \in 1 .. Len(m.result) |->
                   FluxScale * d.local_div[k] - m.result[k]]]

\* lines 1067-1068 with the local divergence of the state before the fluxes
rhs_after_fluxes_div_first(before, f, velocities) ==
  IF Stopped(f.st)
  THEN [st |-> f.st, fluxes |-> f.fluxes, local_div |-> <<>>,
        inverse_mass |-> <<>>, rhs |-> <<>>]
  ELSE rhs_difference(f, calculate_local_div(before, velocities),
                      apply_elementwise_inverse_mass_matrix(f.st, f.fluxes))

\* lines 1067-1068, f being what calculate_fluxes returned and before the
\* state it started from
rhs_after_fluxes(before, f, velocities) ==
  IF Stopped(f.st)
  THEN [st |-> f.st, fluxes |-> f.fluxes, local_div |-> <<>>,
        inverse_mass |-> <<>>, rhs |-> <<>>]
  ELSE rhs_difference(f, calculate_local_div(f.st, velocities),
                      apply_elementwise_inverse_mass_matrix(f.st, f.fluxes))

\* lines 1061-1069: the fluxes first, then the local divergence and the
\* inverse-mass product on the state calculate_fluxes left
get_advective_particle_rhs(st, velocities, chg, cfg) ==
  rhs_after_fluxes(st, calculate_fluxes(st, velocities, chg, cfg), velocities)

\* What a call hands back to the host: whether it failed with an exception,
\* the vectors it returned or, for get_advective_particle_rhs, combined, and
\* for add_advective_particle the particle number it was called with, the
\* unscaled mass it found, whether it raised the zero-mass warning and, if it
\* did not fail, the elements element_finder found the shape to cover, for
\* deallocate_element the index it was
\* called with, the ticks of the kill counter and the reset notification,
\* for reconstruct_densities_on_target the particle numbers of the slice in
\* the order of the visit and the target's vector, for allocate_element the
\* start index it returned and the size the rho_dof_shift_listener was
\* notified of, if it was.
NoResult ==
  [err |-> FALSE, fluxes |-> <<>>, local_div |-> <<>>, inverse_mass |-> <<>>,
   rhs |-> <<>>, total_unscaled_mass |-> 0, warned |-> FALSE,
   pn |-> 0, start_index |-> 0, kill_ticks |-> 0, note_reset |-> <<>>,
   covering |-> <<>>, pslice |-> <<>>, target |-> <<>>,
   note_change_size |-> <<>>, j |-> <<>>, log |-> <<>>]

\* What a host that keeps a record of its calls knows of the last one: the
\* operation, the velocities it passed, the advective_state as it was when
\* it made the call, and what the call handed back.
NoCall ==
  [name |-> "none", velocities |-> <<>>, parts |-> <<>>, rho |-> <<>>,
   active_elements |-> 0, freelist |-> <<>>, result |-> NoResult]

Call(name, velocities, result) ==
  [name |-> name, velocities |-> velocities, parts |-> advected_particles, rho |-> rho,
   active_elements |-> active_elements, freelist |-> freelist, result |-> result]

\* a host that keeps the record writes it, any other leaves it alone
RecordResult(keeps, name, velocities, result) ==
  last' = IF keeps THEN Call(name, velocities, result) ELSE last

Record(keeps, name, velocities) == RecordResult(keeps, name, velocities, NoResult)

Init ==
  /\ active_elements = 0
  /\ freelist = <<>>
  /\ rho = <<>>
  /\ advected_particles = <<>>
  /\ charges = <<>>
  /\ m_activation_threshold = ActivationThreshold
  /\ m_kill_threshold = KillThreshold
  /\ m_upwind_alpha = UpwindAlpha
  /\ m_filter_matrix = NoFilter
  /\ held = <<>>
  /\ ub = FALSE
  /\ last = NoCall

(***************************************************************************)
(* The host sizes the state vector (advective_state::resize is public).    *)
(* The model's host only enlarges it.                                      *)
(***************************************************************************)
HostSizes == {1, m_dofs_per_element}

Resize(keeps) ==
  /\ ~ub
  /\ \E new_size \in HostSizes :
       /\ new_size > Len(rho)
       /\ rho' = resize(rho, new_size)
  /\ Record(keeps, "resize", <<>>)
  /\ UNCHANGED <<active_elements, freelist, advected_particles, charges, config, held, ub>>

(***************************************************************************)
(* Direct calls of the allocator, by a caller that keeps the offsets it    *)
(* was given and deallocates only those.                                   *)
(***************************************************************************)
Allocate ==
  /\ ~ub
  /\ active_elements + Len(freelist) < MaxSlabs
  /\ LET r == allocate_element(AllocState)
     IN /\ active_elements' = r.as.active_elements
        /\ freelist' = r.as.freelist
        /\ rho' = r.as.rho
        /\ held' = Append(held, r.result)
  /\ UNCHANGED <<advected_particles, charges, config, ub, last>>

Deallocate ==
  /\ ~ub
  /\ \E k \in 1 .. Len(held) :
       LET r == deallocate_element(AllocState, held[k])
       IN /\ r.ok
          /\ active_elements' = r.as.active_elements
          /\ freelist' = r.as.freelist
          /\ rho' = r.as.rho
          /\ held' = RemoveAt(held, k)
  /\ UNCHANGED <<advected_particles, charges, config, ub, last>>

\* A caller that passes deallocate_element the offset of a slab it holds,
\* the index after it, or index 1.
DeallocateElement(keeps) ==
  /\ ~ub
  /\ \E start_index \in {1} \cup { held[k] : k \in 1 .. Len(held) }
                          \cup { held[k] + 1 : k \in 1 .. Len(held) } :
       LET r == deallocate_element(AllocState, start_index)
       IN /\ active_elements' = r.as.active_elements
          /\ freelist' = r.as.freelist
          /\ rho' = r.as.rho
          /\ held' = IF r.ok THEN SelectSeq(held, LAMBDA h : h # start_index) ELSE held
          /\ RecordResult(keeps, "deallocate_element", <<>>,
                          [NoResult EXCEPT !.err = ~r.ok,
                                           !.start_index = start_index,
                                           !.kill_ticks = r.kill_ticks,
                                           !.note_reset = r.note_reset])
  /\ UNCHANGED <<advected_particles, charges, config, ub>>

(***************************************************************************)
(* The engine's operations, called by the host.                            *)
(***************************************************************************)
\* The model follows the allocator while its free list holds at most
\* MaxSlabs entries and its count has been decremented at most MaxUnderflow
\* times too often.
WithinBounds(st) ==
  /\ Len(st.as.freelist) <= MaxSlabs
  /\ st.as.active_elements >= 0 - MaxUnderflow

\* the state a call leaves behind
Commit(st) ==
  /\ active_elements' = st.as.active_elements
  /\ freelist' = st.as.freelist
  /\ rho' = st.as.rho
  /\ advected_particles' = st.parts
  /\ ub' = st.ub

\* the shape function's value at its centre, and its values at mesh nodes
ShapePeak == 1
ShapeVals == 0 .. ShapePeak

\* ps.charges of the particles the host adds
Charges == {1, 2}

\* the elements a shape covers: a run of neighbouring elements, in mesh order
CoveringSeqs ==
  { [k \in 1 .. (b - a + 1) |-> a + k - 1] : a \in Elements, b \in Elements } \ { <<>> }

\* a shape inside one element
SingleCoverings == { c \in CoveringSeqs : Len(c) = 1 }

\* the contents of one slab: any, and the same value at every node
AnySlab == [1 .. m_dofs_per_element -> DofVals]
FlatSlab == { [i \in 1 .. m_dofs_per_element |-> x] : x \in DofVals }

\* the shape sampled on one element: any values, and one value at every node
AnySample == [1 .. m_dofs_per_element -> ShapeVals]
FlatSample == { [i \in 1 .. m_dofs_per_element |-> x] : x \in ShapeVals }

SampleMass(covering, samples) ==
  SumSeq([k \in 1 .. Len(covering) |->
            element_integral(m_jacobian(covering[k]), samples[k])])

\* charge / unscaled mass times every sample is a whole number
ScaleIsExact(covering, samples, charge) ==
  LET mass == SampleMass(covering, samples)
  IN IF mass = 0
     THEN TRUE
     ELSE \A k \in 1 .. Len(covering) : \A i \in 1 .. m_dofs_per_element :
             (samples[k][i] * charge) % mass = 0

\* The host registers a particle; limit bounds the number of particles,
\* Coverings and Samples are the covered elements and the sampled shapes the
\* model draws, Offsets the differences between the particle number the
\* host passes and Len(advected_particles), Listeners whether a
\* warning_listener is registered.
AddParticle(keeps, limit, Coverings, Samples, Offsets, Listeners) ==
  /\ ~ub
  /\ Len(advected_particles) < limit
  /\ \E covering \in Coverings, charge \in Charges, off \in Offsets,
        listener \in Listeners :
       \E samples \in [1 .. Len(covering) -> Samples] :
          /\ ScaleIsExact(covering, samples, charge)
          /\ LET r == add_advective_particle(EngineState, ShapePeak, covering, samples,
                                             charge, Len(advected_particles) + off,
                                             listener)
             IN /\ ~r.st.capped
                /\ Commit(r.st)
                /\ charges' = IF Len(r.st.parts) = Len(advected_particles)
                              THEN charges ELSE Append(charges, charge)
                /\ RecordResult(keeps, "add_advective_particle", <<>>,
                                [NoResult EXCEPT
                                   !.err = r.st.err,
                                   !.pn = Len(advected_particles) + off,
                                   !.total_unscaled_mass = r.total_unscaled_mass,
                                   !.warned = r.warned,
                                   !.covering = IF r.st.err THEN <<>> ELSE covering])
  /\ UNCHANGED <<config, held>>

\* a host that numbers its particles in sequence and has a warning_listener
\* registered
AddAdvectiveParticle(keeps, limit, Coverings, Samples) ==
  AddParticle(keeps, limit, Coverings, Samples, {0}, {TRUE})

Velocities == {-1, 0, 1}

CalculateFluxes(keeps) ==
  /\ ~ub
  /\ \E velocities \in [1 .. Len(advected_particles) -> Velocities] :
       LET r == calculate_fluxes(EngineState, velocities, charges, config)
       IN /\ ~r.st.capped
          /\ Commit(r.st)
          /\ RecordResult(keeps, "calculate_fluxes", velocities,
                          [NoResult EXCEPT !.err = r.st.err, !.fluxes = r.fluxes])
  /\ UNCHANGED <<charges, config, held>>

GetAdvectiveParticleRhs(keeps) ==
  /\ ~ub
  /\ \E velocities \in [1 .. Len(advected_particles) -> Velocities] :
       LET r == get_advective_particle_rhs(EngineState, velocities, charges, config)
       IN /\ ~r.st.capped
          /\ Commit(r.st)
          /\ RecordResult(keeps, "get_advective_particle_rhs", velocities,
                          [NoResult EXCEPT !.err = r.st.err, !.fluxes = r.fluxes,
                                           !.local_div = r.local_div,
                                           !.inverse_mass = r.inverse_mass,
                                           !.rhs = r.rhs])
  /\ UNCHANGED <<charges, config, held>>

\* calculate_local_div is const: the host gets the vector, the engine's
\* state stays as it is
CalculateLocalDiv(keeps) ==
  /\ ~ub
  /\ \E velocities \in [1 .. Len(advected_particles) -> Velocities] :
       LET r == calculate_local_div(EngineState, velocities)
       IN /\ ub' = r.ub
          /\ RecordResult(keeps, "calculate_local_div", velocities,
                          [NoResult EXCEPT !.local_div = r.local_div])
  /\ UNCHANGED <<active_elements, freelist, rho, advected_particles, charges, config,
                 held>>

PerformReconstructorUpkeep(keeps) ==
  /\ ~ub
  /\ LET st == perform_reconstructor_upkeep(EngineState, charges, m_kill_threshold)
     IN /\ WithinBounds(st)
        /\ Commit(st)
        /\ RecordResult(keeps, "perform_reconstructor_upkeep", <<>>,
                        [NoResult EXCEPT !.err = st.err])
  /\ UNCHANGED <<charges, config, held>>

\* apply_advective_particle_rhs with a filter matrix of dimension zero:
\* rho += rhs.  The host's rhs is nonzero on the slab of one active element,
\* which it takes to one of the contents Slabs.
apply_advective_particle_rhs(r, start, vals) ==
  [i \in 1 .. Len(r) |->
     IF i > start /\ i <= start + m_dofs_per_element
     THEN r[i] + (vals[i - start] - r[i])
     ELSE r[i] + 0]

ApplyAdvectiveParticleRhs(keeps, Slabs) ==
  /\ ~ub
  /\ \E pn \in 1 .. Len(advected_particles) :
       \E k \in 1 .. Len(advected_particles[pn].m_elements) :
          \E vals \in Slabs :
             LET start == advected_particles[pn].m_elements[k].m_start_index
             IN /\ InRho(rho, start)
                /\ rho' = apply_advective_particle_rhs(rho, start, vals)
  /\ Record(keeps, "apply_advective_particle_rhs", <<>>)
  /\ UNCHANGED <<active_elements, freelist, advected_particles, charges, config, held, ub>>

(***************************************************************************)
(* Spec: one host driving the engine through construction, flux            *)
(* computation, integration and upkeep.                                    *)
(***************************************************************************)
Next ==
  \/ Resize(FALSE)
  \/ AddAdvectiveParticle(FALSE, MaxParticles, CoveringSeqs, FlatSample)
  \/ CalculateFluxes(FALSE)
  \/ PerformReconstructorUpkeep(FALSE)
  \/ ApplyAdvectiveParticleRhs(FALSE, FlatSlab)

Spec == Init /\ [][Next]_vars

(***************************************************************************)
(* note_move and note_change_size: the host moves and drops particles.     *)
(***************************************************************************)
\* lines 401-403: the slabs of the particle at position pos are deallocated
RECURSIVE deallocate_elements(_, _, _)
deallocate_elements(st, pos, k) ==
  IF Stopped(st) \/ k > Len(st.parts[pos].m_elements)
  THEN st
  ELSE LET d == deallocate_element(st.as, st.parts[pos].m_elements[k].m_start_index)
       IN IF ~d.ok
          THEN [st EXCEPT !.err = TRUE]
          ELSE IF Len(d.as.freelist) > MaxSlabs
               THEN [st EXCEPT !.capped = TRUE]
               ELSE deallocate_elements([st EXCEPT !.as = d.as], pos, k + 1)

\* lines 399-406
RECURSIVE note_move(_, _, _, _, _)
note_move(st, from, to, size, i) ==
  IF Stopped(st) \/ i >= size
  THEN st
  ELSE LET st1 == deallocate_elements(st, to + i + 1, 1)
       IN IF Stopped(st1)
          THEN st1
          ELSE note_move([st1 EXCEPT !.parts[to + i + 1] = st1.parts[from + i + 1]],
                         from, to, size, i + 1)

\* a default-constructed advected_particle
default_particle == [m_shape_function |-> 0, m_elements |-> <<>>]

\* lines 412-417: std::vector::resize
note_change_size(parts, particle_count) ==
  [i \in 1 .. particle_count |->
     IF i <= Len(parts) THEN parts[i] ELSE default_particle]

\* The particle state moves its own per-particle data, the charges, with
\* the particles.
NoteMove ==
  /\ ~ub
  /\ \E from \in 0 .. (Len(advected_particles) - 1),
        to \in 0 .. (Len(advected_particles) - 1) :
       LET st == note_move(EngineState, from, to, 1, 0)
       IN /\ from # to
          /\ ~st.capped
          /\ WithinBounds(st)
          /\ Commit(st)
          /\ charges' = IF st.err THEN charges
                        ELSE [charges EXCEPT ![to + 1] = charges[from + 1]]
  /\ UNCHANGED <<config, held, last>>

NoteChangeSize ==
  /\ ~ub
  /\ \E particle_count \in 0 .. MaxHostParticles, charge \in Charges :
       /\ particle_count # Len(advected_particles)
       /\ particle_count > Len(advected_particles) => charge = 1
       /\ advected_particles' = note_change_size(advected_particles, particle_count)
       /\ charges' = [i \in 1 .. particle_count |->
                        IF i <= Len(charges) THEN charges[i] ELSE charge]
  /\ UNCHANGED <<active_elements, freelist, rho, config, held, ub, last>>

(***************************************************************************)
(* SpecHost: the host also moves and drops particles.                      *)
(***************************************************************************)
NextHost ==
  \/ Resize(FALSE)
  \/ AddAdvectiveParticle(FALSE, MaxHostParticles, SingleCoverings, FlatSample)
  \/ PerformReconstructorUpkeep(FALSE)
  \/ NoteMove
  \/ NoteChangeSize

SpecHost == Init /\ [][NextHost]_vars

(***************************************************************************)
(* SpecTrace: a host that keeps a record of its last call, registers       *)
(* shapes sampled at the nodes and does not integrate.                     *)
(***************************************************************************)
NextTrace ==
  \/ Resize(TRUE)
  \/ AddAdvectiveParticle(TRUE, MaxParticles, CoveringSeqs, AnySample)
  \/ CalculateFluxes(TRUE)
  \/ CalculateLocalDiv(TRUE)
  \/ PerformReconstructorUpkeep(TRUE)

SpecTrace == Init /\ [][NextTrace]_vars

(***************************************************************************)
(* SpecAlloc: a caller of the allocator alone.                             *)
(***************************************************************************)
NextAlloc == Resize(FALSE) \/ Allocate \/ Deallocate

SpecAlloc == Init /\ [][NextAlloc]_vars


(***************************************************************************)
(* Properties of the allocator (SpecAlloc).                                *)
(***************************************************************************)
\* C1: when every deallocate is given the offset of a live slab, every live
\* slab's offset is a multiple of dofs_per_element and no two live slabs
\* have the same offset.
C1_LiveOffsetsDistinctMultiples ==
  /\ \A i \in 1 .. Len(held) : held[i] % m_dofs_per_element = 0
  /\ \A i, j \in 1 .. Len(held) : i # j => held[i] # held[j]

\* a slab taken from the free list is live next to slabs handed out before
\* it at higher offsets
C1_ReusedSlabHeld ==
  /\ Len(held) >= 3
  /\ \E i \in 2 .. Len(held) : held[i] < held[i - 1]

\* C2: from a freshly constructed advective_state, active_elements +
\* freelist.size() <= rho.size() / dofs_per_element, and every offset handed
\* out lies inside rho.
C2_SlabsInsideRho ==
  /\ active_elements + Len(freelist) <= Len(rho) \div m_dofs_per_element
  /\ \A i \in 1 .. Len(held) : InRho(rho, held[i])

(***************************************************************************)
(* Properties of the patches.                                              *)
(***************************************************************************)
\* the (particle, element) positions of parts
Positions(parts) ==
  UNION { { <<pn, k>> : k \in 1 .. Len(parts[pn].m_elements) } : pn \in 1 .. Len(parts) }

ElementAt(parts, pos) == parts[pos[1]].m_elements[pos[2]]

\* the slab at offset start has been handed out and not been given back
LiveSlab(start) ==
  /\ start % m_dofs_per_element = 0
  /\ start \div m_dofs_per_element >= 0
  /\ start \div m_dofs_per_element < active_elements + Len(freelist)
  /\ \A i \in 1 .. Len(freelist) : freelist[i] # start \div m_dofs_per_element

\* C3: after any sequence of add_advective_particle,
\* perform_reconstructor_upkeep, note_move and note_change_size calls, no two
\* ActiveElements have the same start_index and no start_index names a
\* deallocated slab.
C3_ExclusiveOwnership ==
  ~ub =>
    /\ \A a, b \in Positions(advected_particles) :
         a # b => ElementAt(advected_particles, a).m_start_index
                    # ElementAt(advected_particles, b).m_start_index
    /\ \A a \in Positions(advected_particles) :
         LiveSlab(ElementAt(advected_particles, a).m_start_index)

\* a's connection array names b's element id
Names(a, b) == \E c \in 1 .. max_faces : a.m_connections[c] = b.m_id

\* C4: after every completed add_advective_particle, calculate_fluxes and
\* perform_reconstructor_upkeep, A's connection array names B's element id
\* if and only if B's names A's, for all elements A and B of one particle.
C4_ConnectivitySymmetric ==
  ~ub =>
    \A pn \in 1 .. Len(advected_particles) :
      \A i, j \in 1 .. Len(advected_particles[pn].m_elements) :
        Names(advected_particles[pn].m_elements[i], advected_particles[pn].m_elements[j])
          <=> Names(advected_particles[pn].m_elements[j], advected_particles[pn].m_elements[i])

\* an element that dynamic activation added is connected to an element of
\* the patch, in a patch that upkeep has retired an element from
C4_ActivatedElementConnected ==
  /\ ~ub
  /\ Len(freelist) >= 1
  /\ \E pn \in 1 .. Len(advected_particles) :
       \E i, j \in 1 .. Len(advected_particles[pn].m_elements) :
          /\ advected_particles[pn].m_elements[i].m_min_life > 0
          /\ Names(advected_particles[pn].m_elements[i], advected_particles[pn].m_elements[j])

\* C5: every entry of every connection array is INVALID_ELEMENT or the
\* element id of an ActiveElement present in the same particle's patch.
C5_ConnectionsInsidePatch ==
  ~ub =>
    \A a \in Positions(advected_particles) : \A c \in 1 .. max_faces :
      LET en == ElementAt(advected_particles, a).m_connections[c]
      IN en = INVALID_ELEMENT \/ find_element(advected_particles[a[1]], en) # 0

\* an element with a neighbour in the patch and, across another face, a
\* neighbour that is not: its slab is on the free list
C5_NeighbourRetired ==
  /\ ~ub
  /\ Len(freelist) >= 1
  /\ \E a \in Positions(advected_particles) :
       LET el == ElementAt(advected_particles, a)
       IN \E f, g \in Faces :
            /\ el.m_connections[f + 1] # INVALID_ELEMENT
            /\ m_neighbor(el.m_id, g) # INVALID_ELEMENT
            /\ el.m_connections[g + 1] = INVALID_ELEMENT
            /\ find_element(advected_particles[a[1]], m_neighbor(el.m_id, g)) = 0

(***************************************************************************)
(* Properties of perform_reconstructor_upkeep.                             *)
(***************************************************************************)
\* a step that is a completed upkeep pass
UpkeepStep == PerformReconstructorUpkeep(FALSE) /\ ~ub'

\* element_charge / |particle_charge| < kill_threshold for the element at a
ChargeRatioLow(a) ==
  LET el == ElementAt(advected_particles, a)
  IN /\ InRho(rho, el.m_start_index)
     /\ RatioBelow(element_l1(m_jacobian(el.m_id), slab(rho, el.m_start_index)),
                   Abs(charges[a[1]]), m_kill_threshold)

\* C6: perform_reconstructor_upkeep never removes an element whose min_life
\* is nonzero after the pass's decrement, that is, 2 or more before the
\* pass, however small its charge ratio is.
C6_ProtectedNotRetired ==
  [][UpkeepStep =>
       \A a \in Positions(advected_particles) :
         ElementAt(advected_particles, a).m_min_life >= 2
           => find_element(advected_particles'[a[1]],
                           ElementAt(advected_particles, a).m_id) # 0]_vars

\* an element with a charge ratio below kill_threshold has been through an
\* upkeep pass and is still protected
C6_LowChargeSurvivor ==
  /\ ~ub
  /\ \E a \in Positions(advected_particles) :
       /\ ElementAt(advected_particles, a).m_min_life > 0
       /\ ElementAt(advected_particles, a).m_min_life < ProtectiveMinLife
       /\ ChargeRatioLow(a)

\* C7: in each upkeep pass, every element whose min_life is nonzero at the
\* start of the pass and that is not retired in it has its min_life reduced
\* by exactly one, whatever its position.
C7_EveryElementCountsDown ==
  [][UpkeepStep =>
       \A a \in Positions(advected_particles) :
         LET el == ElementAt(advected_particles, a)
             k == find_element(advected_particles'[a[1]], el.m_id)
         IN (el.m_min_life # 0 /\ k # 0)
              => advected_particles'[a[1]].m_elements[k].m_min_life
                   = el.m_min_life - 1]_vars

\* C8: every element that in an upkeep pass has min_life 0 after the
\* decrement and a charge ratio below kill_threshold is gone from its patch
\* when the pass returns.
C8_EveryEligibleRetired ==
  [][UpkeepStep =>
       \A a \in Positions(advected_particles) :
         (ElementAt(advected_particles, a).m_min_life <= 1 /\ ChargeRatioLow(a))
           => find_element(advected_particles'[a[1]],
                           ElementAt(advected_particles, a).m_id) = 0]_vars

\* C9: an element with min_life 3 is not retired by the next pass and comes
\* out of it with min_life 2, at any position of the patch, so that the
\* third pass is the one that takes it to 0 and may retire it.
C9_ThreeCountsDown ==
  [][UpkeepStep =>
       \A a \in Positions(advected_particles) :
         LET el == ElementAt(advected_particles, a)
             k == find_element(advected_particles'[a[1]], el.m_id)
         IN el.m_min_life = 3
              => /\ k # 0
                 /\ advected_particles'[a[1]].m_elements[k].m_min_life = 2]_vars

(***************************************************************************)
(* Properties of calculate_fluxes (SpecTrace).                             *)
(***************************************************************************)
\* the largest |DOF| of el on the trace of its face fn, in the state vector r
TraceMax(r, el, fn) ==
  max_density(r, el.m_start_index, face_lookup(el.m_id, fn).flux_face.index_list, 0)

\* face fn of el, an element of particle pn when the last call was made, was
\* then an outflow face with a neighbour that el was not connected to
OpenOutflowFace(pn, el, fn) ==
  /\ m_neighbor(el.m_id, fn) # INVALID_ELEMENT
  /\ el.m_connections[fn + 1] = INVALID_ELEMENT
  /\ last.velocities[pn] * face_lookup(el.m_id, fn).flux_face.normal > 0

\* C10: on an outflow, non-boundary face whose neighbour is not connected,
\* calculate_fluxes activates the neighbour if and only if the maximum |DOF|
\* on the face trace is strictly greater than activation_threshold times
\* |peak shape value|.
C10_ActivationIffAboveThreshold ==
  (last.name = "calculate_fluxes" /\ ~ub) =>
    \A pn \in 1 .. Len(last.parts) :
      \A k \in 1 .. Len(last.parts[pn].m_elements) : \A fn \in Faces :
        LET el == last.parts[pn].m_elements[k]
            peak == last.parts[pn].m_shape_function * charges[pn]
        IN OpenOutflowFace(pn, el, fn) =>
             ( find_element(advected_particles[pn], m_neighbor(el.m_id, fn)) # 0
               <=> TraceMax(last.rho, el, fn) * Den(m_activation_threshold)
                     > Num(m_activation_threshold) * Abs(peak) )

\* the last call was calculate_fluxes and it activated a neighbour across an
\* outflow face
C10_NeighbourActivated ==
  /\ last.name = "calculate_fluxes"
  /\ ~ub
  /\ \E pn \in 1 .. Len(last.parts) :
       \E k \in 1 .. Len(last.parts[pn].m_elements) : \E fn \in Faces :
          /\ OpenOutflowFace(pn, last.parts[pn].m_elements[k], fn)
          /\ find_element(advected_particles[pn],
                          m_neighbor(last.parts[pn].m_elements[k].m_id, fn)) # 0

(***************************************************************************)
(* SpecRound: a caller that allocates some slabs on a new state, gives all *)
(* of them back in an order of its choice, and allocates as many again.    *)
(* held has one entry per slab of the first round; NoSlab marks a slab the *)
(* caller has given back.  The caller's record names the step it is in.    *)
(***************************************************************************)
NoSlab == 0 - 1

\* what a caller with a rho_dof_shift_listener registered knows of an
\* allocate_element call: the start index returned and, from lines 476-477,
\* the size the listener was notified of
Allocated(r) ==
  [NoResult EXCEPT
     !.start_index = r.result,
     !.note_change_size = IF r.resized THEN << Len(r.as.rho) >> ELSE <<>>]

\* the allocator state after a call, and the caller's record
CommitAlloc(as, name, result) ==
  /\ active_elements' = as.active_elements
  /\ freelist' = as.freelist
  /\ rho' = as.rho
  /\ RecordResult(TRUE, name, <<>>, result)
  /\ UNCHANGED <<advected_particles, charges, config, ub>>

RoundAllocate ==
  /\ ~ub
  /\ last.name \in {"none", "resize", "allocate_element"}
  /\ Len(held) < MaxSlabs
  /\ LET r == allocate_element(AllocState)
     IN /\ CommitAlloc(r.as, "allocate_element", Allocated(r))
        /\ held' = Append(held, r.result)

RoundDeallocate ==
  /\ ~ub
  /\ last.name \in {"allocate_element", "deallocate_element"}
  /\ \E k \in 1 .. Len(held) :
       /\ held[k] # NoSlab
       /\ LET r == deallocate_element(AllocState, held[k])
          IN /\ r.ok
             /\ CommitAlloc(r.as, "deallocate_element", NoResult)
             /\ held' = [held EXCEPT ![k] = NoSlab]

RoundReallocate ==
  /\ ~ub
  /\ \/ last.name = "deallocate_element" /\ \A k \in 1 .. Len(held) : held[k] = NoSlab
     \/ last.name = "allocate_element, second round"
  /\ \E k \in 1 .. Len(held) :
       /\ held[k] = NoSlab
       /\ \A j \in 1 .. (k - 1) : held[j] # NoSlab
       /\ LET r == allocate_element(AllocState)
          IN /\ CommitAlloc(r.as, "allocate_element, second round", Allocated(r))
             /\ held' = [held EXCEPT ![k] = r.result]

RoundResize ==
  /\ last.name = "none"
  /\ Resize(TRUE)

NextRound == RoundResize \/ RoundAllocate \/ RoundDeallocate \/ RoundReallocate

SpecRound == Init /\ [][NextRound]_vars

(***************************************************************************)
(* C13: the allocator round trip.                                          *)
(***************************************************************************)
\* the caller holds a slab in every entry of held
NoneGivenBack == \A k \in 1 .. Len(held) : held[k] # NoSlab

\* C13: after allocating N slabs on a new state, deallocating all N in any
\* order and allocating N slabs again, the offsets in use are exactly
\* 0, d, ..., (N - 1) d, each used once, and no call of the second round
\* has changed the size of rho.
C13_RoundTrip ==
  /\ (last.name = "allocate_element, second round" /\ NoneGivenBack) =>
        /\ { held[k] : k \in 1 .. Len(held) }
              = { i * m_dofs_per_element : i \in 0 .. (Len(held) - 1) }
        /\ \A j, k \in 1 .. Len(held) : held[j] = held[k] => j = k
  /\ last.name = "allocate_element, second round" => Len(rho) = Len(last.rho)

\* the second round is complete after three slabs were given back with the
\* first one not last, so that the free list was in use, on a state vector
\* that grew during the first round
C13_RoundTripDone ==
  /\ last.name = "allocate_element, second round"
  /\ NoneGivenBack
  /\ Len(held) = 3
  /\ held[1] # 0
  /\ Len(rho) > m_dofs_per_element

(***************************************************************************)
(* C11: zero velocities give zero fluxes and zero local divergence.        *)
(***************************************************************************)
AllZero(s) == \A k \in 1 .. Len(s) : s[k] = 0

\* the last call completed: no exception, no undefined behaviour
Completed == ~ub /\ ~last.result.err

\* C11: when every particle velocity passed to calculate_fluxes or to
\* calculate_local_div is zero, every entry of the returned vector is zero,
\* whatever the patches and the stored density are.
C11_ZeroVelocityZeroVectors ==
  (Completed /\ AllZero(last.velocities)) =>
     /\ last.name = "calculate_fluxes" => AllZero(last.result.fluxes)
     /\ last.name = "calculate_local_div" => AllZero(last.result.local_div)

\* a zero-velocity calculate_fluxes on a patch of two connected elements
\* whose slabs hold a nonzero, non-constant density
C11_ZeroVelocityOnDensity ==
  /\ Completed
  /\ last.name = "calculate_fluxes"
  /\ Len(last.velocities) > 0
  /\ AllZero(last.velocities)
  /\ Len(last.result.fluxes) >= 2 * m_dofs_per_element
  /\ \E a \in 1 .. Len(last.parts[1].m_elements) :
        LET el == last.parts[1].m_elements[a]
        IN /\ \E fn \in Faces : el.m_connections[fn + 1] # INVALID_ELEMENT
           /\ last.rho[el.m_start_index + 1] # last.rho[el.m_start_index + 2]

(***************************************************************************)
(* C12: a new particle's patch integrates to its charge.                   *)
(***************************************************************************)
\* the sum over the patch's elements of jacobian * (weights . slab)
PatchIntegral(p, r) ==
  SumSeq([a \in 1 .. Len(p.m_elements) |->
            m_jacobian(p.m_elements[a].m_id)
              * SumSeq([i \in 1 .. m_dofs_per_element |->
                          m_integral_weights[i]
                            * r[p.m_elements[a].m_start_index + i]])])

\* the last call was an add_advective_particle that registered its particle
ParticleAdded ==
  /\ Completed
  /\ last.name = "add_advective_particle"
  /\ Len(advected_particles) = Len(last.parts) + 1

\* C12: after add_advective_particle for a particle whose unscaled patch
\* integral is nonzero, the integral of the new patch equals the
\* particle's charge.
C12_PatchIntegralIsCharge ==
  (ParticleAdded /\ last.result.total_unscaled_mass # 0) =>
     PatchIntegral(advected_particles[Len(advected_particles)], rho)
        = charges[Len(advected_particles)]

\* a particle on two or more elements whose unscaled mass is neither zero
\* nor its charge
C12_ScaledPatch ==
  /\ ParticleAdded
  /\ last.result.total_unscaled_mass # 0
  /\ last.result.total_unscaled_mass # charges[Len(advected_particles)]
  /\ Len(advected_particles[Len(advected_particles)].m_elements) >= 2

(***************************************************************************)
(* SpecFlux: a host that keeps the record of its last call and steps the   *)
(* density between flux computations; it never runs the upkeep.            *)
(***************************************************************************)
NextFlux ==
  \/ Resize(TRUE)
  \/ AddAdvectiveParticle(TRUE, MaxParticles, CoveringSeqs, AnySample)
  \/ ApplyAdvectiveParticleRhs(TRUE, FlatSlab)
  \/ CalculateFluxes(TRUE)
  \/ GetAdvectiveParticleRhs(TRUE)

SpecFlux == Init /\ [][NextFlux]_vars

(***************************************************************************)
(* SpecErr: a host whose calls may be in error.  The engine is constructed *)
(* with thresholds of the host's choice; the host allocates slabs of its   *)
(* own first, passes deallocate_element aligned and misaligned indices,    *)
(* numbers its particles in or out of sequence and may have no             *)
(* warning_listener registered.                                            *)
(***************************************************************************)
\* lines 197-258: the constructor stores the thresholds it is given
advective_reconstructor(activation_threshold, kill_threshold, upwind_alpha) ==
  <<activation_threshold, kill_threshold, upwind_alpha>>

\* the thresholds a host passes to the constructor
Thresholds == {<<0, 1>>, <<1, 2>>}

InitErr ==
  /\ active_elements = 0
  /\ freelist = <<>>
  /\ rho = <<>>
  /\ advected_particles = <<>>
  /\ charges = <<>>
  /\ \E activation_threshold \in Thresholds, kill_threshold \in Thresholds :
       LET c == advective_reconstructor(activation_threshold, kill_threshold,
                                        UpwindAlpha)
       IN /\ m_activation_threshold = c[1]
          /\ m_kill_threshold = c[2]
          /\ m_upwind_alpha = c[3]
          /\ m_filter_matrix = NoFilter
  /\ held = <<>>
  /\ ub = FALSE
  /\ last = NoCall

NextErr ==
  \/ RoundResize
  \/ RoundAllocate
  \/ DeallocateElement(TRUE)
  \/ AddParticle(TRUE, MaxParticles, CoveringSeqs, FlatSample, {0, 1}, BOOLEAN)
  \/ CalculateFluxes(TRUE)
  \/ PerformReconstructorUpkeep(TRUE)

SpecErr == InitErr /\ [][NextErr]_vars

(***************************************************************************)
(* C14: the flux accumulator follows rho.                                  *)
(***************************************************************************)
\* the state the last call started from, with rho already as long as the
\* call left it
PreGrown ==
  [as |-> [active_elements |-> last.active_elements, freelist |-> last.freelist,
           rho |-> resize(last.rho, Len(rho))],
   parts |-> last.parts, ub |-> FALSE, err |-> FALSE, capped |-> FALSE]

\* C14: calculate_fluxes returns an accumulator as long as rho, and an
\* activation that enlarges rho during the call leaves in the accumulator
\* what the call computes when rho has that length from the start: the
\* entries accumulated before the growth keep their values and the new
\* entries start at zero.
C14_AccumulatorFollowsRho ==
  (Completed /\ last.name = "calculate_fluxes") =>
     /\ Len(last.result.fluxes) = Len(rho)
     /\ last.result.fluxes
          = calculate_fluxes(PreGrown, last.velocities, charges, config).fluxes

\* an activation has enlarged rho after the first element of the patch had
\* accumulated a nonzero contribution through its inflow face 0
C14_GrownDuringCall ==
  /\ Completed
  /\ last.name = "calculate_fluxes"
  /\ Len(rho) > Len(last.rho)
  /\ Len(last.rho) > 0
  /\ last.velocities[1] = 1
  /\ LET start == last.parts[1].m_elements[1].m_start_index
     IN /\ last.rho[start + 1] # 0
        /\ last.result.fluxes[start + 1] # 0

(***************************************************************************)
(* C15: get_advective_particle_rhs computes the fluxes first.              *)
(***************************************************************************)
\* the state the last call started from
PreState ==
  [as |-> [active_elements |-> last.active_elements, freelist |-> last.freelist,
           rho |-> last.rho],
   parts |-> last.parts, ub |-> FALSE, err |-> FALSE, capped |-> FALSE]

\* C15: get_advective_particle_rhs returns calculate_local_div minus
\* apply_elementwise_inverse_mass_matrix(fluxes), where the fluxes are
\* those of the state the call started from and the other two are
\* evaluated on the state calculate_fluxes has left, with every activation
\* and growth of rho done; all three vectors have rho.size() entries.
C15_FluxesBeforeDivergence ==
  (last.name = "get_advective_particle_rhs" /\ ~last.result.err) =>
     LET res == last.result
     IN /\ res.fluxes
             = calculate_fluxes(PreState, last.velocities, charges, config).fluxes
        /\ res.local_div = calculate_local_div(EngineState, last.velocities).local_div
        /\ res.inverse_mass
             = apply_elementwise_inverse_mass_matrix(EngineState, res.fluxes).result
        /\ Len(res.fluxes) = Len(rho)
        /\ Len(res.local_div) = Len(rho)
        /\ Len(res.inverse_mass) = Len(rho)
        /\ Len(res.rhs) = Len(rho)
        /\ \A k \in 1 .. Len(rho) :
             res.rhs[k] = FluxScale * res.local_div[k] - res.inverse_mass[k]

\* a call that activated an element and enlarged rho, with nonzero fluxes
\* and a nonzero local divergence
C15_RhsAfterGrowth ==
  /\ Completed
  /\ last.name = "get_advective_particle_rhs"
  /\ Len(rho) > Len(last.rho)
  /\ Len(last.rho) > 0
  /\ ~AllZero(last.result.fluxes)
  /\ ~AllZero(last.result.local_div)
  /\ ~AllZero(last.result.rhs)

(***************************************************************************)
(* C16: a misaligned deallocate_element.                                   *)
(***************************************************************************)
\* the allocator and the patches are as the last call found them
StateAsBefore ==
  /\ active_elements = last.active_elements
  /\ freelist = last.freelist
  /\ rho = last.rho
  /\ advected_particles = last.parts

\* C16: deallocate_element called with a start_index that is not a
\* multiple of dofs_per_element fails with an error, leaves active_elements
\* and the free list as they were, does not tick the kill counter and
\* sends no reset notification.
C16_MisalignedDeallocateRejected ==
  (last.name = "deallocate_element"
     /\ last.result.start_index % m_dofs_per_element # 0) =>
     /\ last.result.err
     /\ StateAsBefore
     /\ last.result.kill_ticks = 0
     /\ last.result.note_reset = <<>>

\* a misaligned index inside a slab the caller holds was passed, with slabs
\* live and a slab on the free list
C16_MisalignedInsideLiveSlab ==
  /\ last.name = "deallocate_element"
  /\ last.result.start_index % m_dofs_per_element # 0
  /\ \E k \in 1 .. Len(held) : held[k] + 1 = last.result.start_index
  /\ active_elements >= 2
  /\ freelist # <<>>

(***************************************************************************)
(* C17: the upkeep with a zero kill threshold.                             *)
(***************************************************************************)
\* C17: perform_reconstructor_upkeep with kill_threshold == 0 fails and
\* leaves the state as it found it: no min_life is decremented, no element
\* is retired and no slab is deallocated.
C17_ZeroKillThresholdRejected ==
  (last.name = "perform_reconstructor_upkeep" /\ IsZero(m_kill_threshold)) =>
     /\ last.result.err
     /\ StateAsBefore

\* the upkeep was called with a zero kill threshold on a patch that holds
\* an element with no charge on it
C17_UpkeepOnEmptyElement ==
  /\ last.name = "perform_reconstructor_upkeep"
  /\ IsZero(m_kill_threshold)
  /\ \E pn \in 1 .. Len(advected_particles) :
       \E k \in 1 .. Len(advected_particles[pn].m_elements) :
          LET el == advected_particles[pn].m_elements[k]
          IN /\ InRho(rho, el.m_start_index)
             /\ element_l1(m_jacobian(el.m_id), slab(rho, el.m_start_index)) = 0

(***************************************************************************)
(* C18: validation of the configuration at construction.                   *)
(***************************************************************************)
\* C18: no engine exists whose activation_threshold, kill_threshold,
\* dofs_per_element or faces_per_element is zero, because the constructor
\* rejects such a configuration.
C18_ConfigurationValidated ==
  /\ ~IsZero(m_activation_threshold)
  /\ ~IsZero(m_kill_threshold)
  /\ m_dofs_per_element # 0
  /\ m_faces_per_element # 0

(***************************************************************************)
(* C19: a particle registered out of sequence.                             *)
(***************************************************************************)
\* C19: add_advective_particle called with a particle number that is not
\* the number of advected particles fails and changes nothing: no slab is
\* allocated, rho is as before and no particle is appended.
C19_OutOfSequenceRejected ==
  (last.name = "add_advective_particle" /\ last.result.pn # Len(last.parts)) =>
     /\ last.result.err
     /\ StateAsBefore
     /\ Len(charges) = Len(advected_particles)

\* an out-of-sequence call on a state vector the host has sized, with
\* slabs allocated
C19_OutOfSequenceCall ==
  /\ last.name = "add_advective_particle"
  /\ last.result.pn # Len(last.parts)
  /\ Len(rho) >= m_dofs_per_element
  /\ active_elements > 0

(***************************************************************************)
(* C20: a new particle whose unscaled mass is zero.                        *)
(***************************************************************************)
\* the last call was an in-sequence add_advective_particle that allocated
\* slabs and found their unscaled integral to be zero
ZeroMassAdd ==
  /\ ~ub
  /\ last.name = "add_advective_particle"
  /\ last.result.pn = Len(last.parts)
  /\ active_elements > last.active_elements
  /\ last.result.total_unscaled_mass = 0

\* C20: when the unscaled integral of a new particle's sampled DOFs is
\* zero, add_advective_particle does not fail: it warns, scales by the
\* bare charge and appends the particle, so that every slab the call
\* allocated belongs to the registered particle.
C20_ZeroMassParticleRegistered ==
  ZeroMassAdd =>
     /\ ~last.result.err
     /\ last.result.warned
     /\ Len(advected_particles) = Len(last.parts) + 1
     /\ Len(advected_particles[Len(advected_particles)].m_elements)
          = active_elements - last.active_elements

(***************************************************************************)
(* SpecPatch: the engine on an advective_state of the caller's making.     *)
(* advective_state, advected_particle and active_element are structs with  *)
(* public members, and the engine takes the state by reference: the caller *)
(* hands it one particle whose patch holds one or two elements with a slab *)
(* each, and whose connection entries are either INVALID or the mesh       *)
(* neighbour across the face, be that neighbour in the patch or not.  The  *)
(* state vector may hold one more slab, which is then on the free list and *)
(* holds one value at every node.                                          *)
(* The particle's charge is 1.                                              *)
(***************************************************************************)
\* the ids of a patch: one or two distinct mesh elements, in any order
PatchIds ==
  { <<a>> : a \in Elements } \cup
  { ids \in { <<a, b>> : a \in Elements, b \in Elements } : ids[1] # ids[2] }

\* active_element::m_connections of element en, as the caller fills it:
\* named[fn] says that the entry of face fn names the mesh neighbour
PatchConnections(en, named) ==
  [i \in 1 .. max_faces |->
     IF i <= m_faces_per_element /\ named[i - 1]
     THEN m_neighbor(en, i - 1)
     ELSE INVALID_ELEMENT]

InitPatch ==
  /\ \E ids \in PatchIds, free \in 0 .. 1 :
       /\ active_elements = Len(ids)
       /\ \E used \in [1 .. Len(ids) * m_dofs_per_element -> DofVals], unused \in FlatSlab :
            rho = used \o [i \in 1 .. free * m_dofs_per_element |-> unused[i]]
       /\ freelist = [i \in 1 .. free |-> Len(ids)]
       /\ \E named \in [1 .. Len(ids) -> [Faces -> BOOLEAN]] :
            advected_particles =
              << [m_shape_function |-> ShapePeak,
                  m_elements |->
                    [k \in 1 .. Len(ids) |->
                       [new_active_element(ids[k], (k - 1) * m_dofs_per_element, 0)
                          EXCEPT !.m_connections =
                                    PatchConnections(ids[k], named[k])]]] >>
  /\ charges = <<1>>
  /\ m_activation_threshold = ActivationThreshold
  /\ m_kill_threshold = KillThreshold
  /\ m_upwind_alpha = UpwindAlpha
  /\ m_filter_matrix = NoFilter
  /\ held = <<>>
  /\ ub = FALSE
  /\ last = NoCall

NextPatch ==
  \/ CalculateFluxes(TRUE)
  \/ PerformReconstructorUpkeep(TRUE)

SpecPatch == InitPatch /\ [][NextPatch]_vars

(***************************************************************************)
(* C21: a connection that names an element the patch does not hold.        *)
(***************************************************************************)
\* element k of patch p has, on face fn, a connection entry that names an
\* element find_element does not find in p
MissingNeighbour(p, k, fn) ==
  /\ p.m_elements[k].m_connections[fn + 1] # INVALID_ELEMENT
  /\ find_element(p, p.m_elements[k].m_connections[fn + 1]) = 0

\* the last call was a calculate_fluxes on a patch with such an entry, and
\* the call did not activate the element the entry names
MissingNeighbourCall ==
  /\ last.name = "calculate_fluxes"
  /\ \E pn \in 1 .. Len(last.parts) :
       \E k \in 1 .. Len(last.parts[pn].m_elements), fn \in Faces :
          /\ MissingNeighbour(last.parts[pn], k, fn)
          /\ MissingNeighbour(advected_particles[pn], k, fn)

\* C21: calculate_fluxes on a patch with a connection entry that names an
\* element not found in the patch ends in a runtime_error signalled to the
\* caller, and no member of the missing element is read (no access through
\* the null pointer find_element returned).
C21_MissingNeighbourRaisesError ==
  MissingNeighbourCall => (last.result.err /\ ~ub)

(***************************************************************************)
(* C22: the element calculate_fluxes activates, and the upkeep after it.   *)
(***************************************************************************)
\* the positions in patch pn of the elements the last call, a
\* calculate_fluxes, activated: they were not in the patch before it
Activated(pn) ==
  { k \in 1 .. Len(advected_particles[pn].m_elements) :
      find_element(last.parts[pn], advected_particles[pn].m_elements[k].m_id) = 0 }

\* C22: an element activated by calculate_fluxes has an all-zero slab,
\* whether the slab is new or taken from the free list, and a nonzero
\* min_life; a perform_reconstructor_upkeep that is the next call does not
\* retire it, although its charge is zero.
C22_ActivatedSurvivesUpkeep ==
  [][(last.name = "calculate_fluxes" /\ ~ub) =>
       \A pn \in 1 .. Len(last.parts) : \A k \in Activated(pn) :
          LET el == advected_particles[pn].m_elements[k]
          IN /\ InRho(rho, el.m_start_index)
             /\ AllZero(slab(rho, el.m_start_index))
             /\ el.m_min_life # 0
             /\ (last'.name = "perform_reconstructor_upkeep"
                   => find_element(advected_particles'[pn], el.m_id) # 0)]_vars

\* calculate_fluxes has activated an element on a slab that was on the free
\* list and held nonzero values
C22_ReusedSlabActivated ==
  /\ ~ub
  /\ last.name = "calculate_fluxes"
  /\ \E pn \in 1 .. Len(last.parts) : \E k \in Activated(pn) :
       \E j \in 1 .. Len(last.freelist) :
          /\ advected_particles[pn].m_elements[k].m_start_index
               = last.freelist[j] * m_dofs_per_element
          /\ InRho(last.rho, last.freelist[j] * m_dofs_per_element)
          /\ ~AllZero(slab(last.rho, last.freelist[j] * m_dofs_per_element))

(***************************************************************************)
(* C23: a new particle's patch, and one right-hand side at rest.           *)
(***************************************************************************)
\* C23: add_advective_particle for a shape that covers k elements appends
\* a patch of exactly these k elements, each on a slab of its own inside
\* rho, and raises active_elements by k; get_advective_particle_rhs with
\* all velocities zero returns an all-zero vector as long as rho and
\* leaves every patch and the allocator as they were.
C23_PatchAndRhsAtRest ==
  /\ (last.name = "add_advective_particle" /\ Completed) =>
       LET p == advected_particles[Len(advected_particles)]
           k == Len(last.result.covering)
       IN /\ Len(advected_particles) = Len(last.parts) + 1
          /\ [i \in 1 .. Len(p.m_elements) |-> p.m_elements[i].m_id]
               = last.result.covering
          /\ active_elements = last.active_elements + k
          /\ \A i \in 1 .. k : InRho(rho, p.m_elements[i].m_start_index)
          /\ \A i, j \in 1 .. k :
               i # j => p.m_elements[i].m_start_index # p.m_elements[j].m_start_index
  /\ (last.name = "get_advective_particle_rhs" /\ Completed
        /\ AllZero(last.velocities)) =>
       /\ Len(last.result.rhs) = Len(rho)
       /\ AllZero(last.result.rhs)
       /\ advected_particles = last.parts
       /\ active_elements = last.active_elements
       /\ freelist = last.freelist
       /\ rho = last.rho

\* the scenario: one particle of charge 2 on one element, whose DOFs
\* integrate to 2 and are nonzero on a face with a neighbour, and one
\* right-hand side with zero velocity
C23_SingleElementAtRest ==
  /\ last.name = "get_advective_particle_rhs"
  /\ Completed
  /\ last.velocities = <<0>>
  /\ charges = <<2>>
  /\ Len(last.parts) = 1
  /\ Len(last.parts[1].m_elements) = 1
  /\ PatchIntegral(last.parts[1], last.rho) = 2
  /\ \E fn \in Faces :
       /\ m_neighbor(last.parts[1].m_elements[1].m_id, fn) # INVALID_ELEMENT
       /\ TraceMax(last.rho, last.parts[1].m_elements[1], fn) = 2

(***************************************************************************)
(* Reconstruction onto the mesh (rec_target.hpp, and lines 282-300 of      *)
(* rec_advective.hpp).                                                     *)
(***************************************************************************)
\* element_info::m_start: the first mesh node of element en
m_start(en) == en * m_dofs_per_element

\* m_mesh_data.m_nodes.size()
MeshNodes == NumElements * m_dofs_per_element

\* rho_reconstruction_target's constructor: clear() of the target vector
rho_reconstruction_target(target_vector) ==
  [i \in 1 .. Len(target_vector) |-> 0]

\* rho_reconstruction_target::add_shape_on_element with = in place of +=
rho_target_assign_shape_on_element(target_vector, start_idx, rho_contrib) ==
  [i \in 1 .. Len(target_vector) |->
     IF i > start_idx /\ i <= start_idx + Len(rho_contrib)
     THEN rho_contrib[i - start_idx]
     ELSE target_vector[i]]

\* rho_reconstruction_target::add_shape_on_element
rho_target_add_shape_on_element(target_vector, start_idx, rho_contrib) ==
  [i \in 1 .. Len(target_vector) |->
     IF i > start_idx /\ i <= start_idx + Len(rho_contrib)
     THEN target_vector[i] + rho_contrib[i - start_idx]
     ELSE target_vector[i]]

\* lines 292-298: the elements of one particle, from position k on; t holds
\* the target's vector and whether a slab outside rho was read
RECURSIVE reconstruct_elements(_, _, _, _)
reconstruct_elements(t, r, els, k) ==
  IF t.ub \/ k > Len(els)
  THEN t
  ELSE IF ~InRho(r, els[k].m_start_index)
       THEN [t EXCEPT !.ub = TRUE]
       ELSE reconstruct_elements(
              [t EXCEPT !.target =
                 rho_target_add_shape_on_element(@, m_start(els[k].m_id),
                                                 slab(r, els[k].m_start_index))],
              r, els, k + 1)

\* lines 282-300: the particles of the slice, in the order of the slice
RECURSIVE reconstruct_densities_on_target(_, _, _, _, _)
reconstruct_densities_on_target(r, parts, t, pslice, n) ==
  IF t.ub \/ n > Len(pslice)
  THEN t
  ELSE reconstruct_densities_on_target(
         r, parts,
         reconstruct_elements(t, r, parts[pslice[n] + 1].m_elements, 1),
         pslice, n + 1)

\* rec_target.hpp, lines 236-243: reconstruct_rho on a vector of the mesh's
\* size
reconstruct_rho(r, parts, target_vector, pslice) ==
  reconstruct_densities_on_target(
    r, parts, [target |-> rho_reconstruction_target(target_vector), ub |-> FALSE],
    pslice, 1)

\* the particle numbers a slice over particle_count particles visits, in
\* the order of the visit: an arithmetic progression inside the range,
\* rising or falling
Slices(particle_count) ==
  { s \in UNION { [1 .. k -> 0 .. (particle_count - 1)] : k \in 0 .. particle_count } :
      /\ \A i, j \in 1 .. Len(s) : i # j => s[i] # s[j]
      /\ \A i \in 2 .. (Len(s) - 1) : s[i + 1] - s[i] = s[i] - s[i - 1] }

\* The host reconstructs rho on a vector of its own, which holds whatever
\* it held before.
ReconstructRho ==
  /\ ~ub
  /\ \E pslice \in Slices(Len(advected_particles)) :
       LET t == reconstruct_rho(rho, advected_particles,
                                [i \in 1 .. MeshNodes |-> Uninit], pslice)
       IN /\ ub' = t.ub
          /\ RecordResult(TRUE, "reconstruct_densities_on_target", <<>>,
                          [NoResult EXCEPT !.pslice = pslice, !.target = t.target])
  /\ UNCHANGED <<active_elements, freelist, rho, advected_particles, charges,
                 config, held>>

(***************************************************************************)
(* SpecRec: a host that sizes the state vector, registers up to            *)
(* MaxHostParticles particles and reconstructs rho on the mesh.            *)
(***************************************************************************)
NextRec ==
  \/ Resize(TRUE)
  \/ AddAdvectiveParticle(TRUE, MaxHostParticles, CoveringSeqs, AnySample)
  \/ ReconstructRho

SpecRec == Init /\ [][NextRec]_vars

(***************************************************************************)
(* C24: reconstruction is a superposition.                                 *)
(***************************************************************************)
\* what the elements of parts with id en hold at node i of their slabs,
\* over the particles whose numbers are in the set pset, summed particle by
\* particle from the highest number down and element by element from the
\* last one down
RECURSIVE ElementSum(_, _, _, _, _)
ElementSum(r, els, en, i, k) ==
  IF k = 0 THEN 0
  ELSE (IF els[k].m_id = en THEN r[els[k].m_start_index + i] ELSE 0)
         + ElementSum(r, els, en, i, k - 1)

RECURSIVE Superposition(_, _, _, _, _, _)
Superposition(r, parts, pset, en, i, pn) ==
  IF pn = 0 THEN 0
  ELSE (IF (pn - 1) \in pset
        THEN ElementSum(r, parts[pn].m_elements, en, i, Len(parts[pn].m_elements))
        ELSE 0)
         + Superposition(r, parts, pset, en, i, pn - 1)

\* C24: after reconstruct_densities_on_target with a
\* rho_reconstruction_target, the target at node i of mesh element en is
\* the sum of rho at node i of the slabs of all elements with id en of all
\* particles in the slice; it depends on the set of particles in the slice
\* only, not on the order of the visit, and what the target held before
\* does not enter.
C24_ReconstructionIsSuperposition ==
  (last.name = "reconstruct_densities_on_target" /\ ~ub) =>
     /\ Len(last.result.target) = MeshNodes
     /\ \A en \in Elements : \A i \in 1 .. m_dofs_per_element :
          last.result.target[m_start(en) + i]
            = Superposition(rho, advected_particles,
                            { last.result.pslice[n] : n \in 1 .. Len(last.result.pslice) },
                            en, i, Len(advected_particles))

\* a reconstruction over two particles, the higher number first, that both
\* hold a nonzero value at the same node of the same mesh element
C24_TwoParticlesOnOneElement ==
  /\ last.name = "reconstruct_densities_on_target"
  /\ ~ub
  /\ last.result.pslice = <<1, 0>>
  /\ \E en \in Elements : \E i \in 1 .. m_dofs_per_element :
       /\ ElementSum(rho, advected_particles[1].m_elements, en, i,
                     Len(advected_particles[1].m_elements)) # 0
       /\ ElementSum(rho, advected_particles[2].m_elements, en, i,
                     Len(advected_particles[2].m_elements)) # 0
       /\ last.result.target[m_start(en) + i] > 1

(***************************************************************************)
(* SpecThreads: two callers of allocate_element on one advective_state.    *)
(* A single caller first sizes the state vector, allocates and gives back  *)
(* slabs as in SpecRound; then two callers run allocate_element statement  *)
(* by statement, either under a lock that admits one call at a time or     *)
(* without one.  The host's record then holds, for each caller, the line   *)
(* of allocate_element it is at (0 outside a call) and the call's locals;  *)
(* held holds the offsets handed out and not given back.                   *)
(***************************************************************************)
\* std::vector::pop_back that removes nothing
pop_back_kept(s) == s

\* std::vector::pop_back
pop_back(s) == SubSeq(s, 1, Len(s) - 1)

\* a caller outside a call
Idle == [pc |-> 0, result |-> 0, avl_space |-> 0]

\* One statement of allocate_element (lines 454-481) by the caller with
\* locals t on the allocator state as: the state and the locals after it,
\* the value returned if the statement is a return, and whether it calls
\* back() or pop_back() on an empty free list.
allocate_element_statement(as, t) ==
  LET r == [as |-> as, t |-> t, returned |-> NoSlab, ub |-> FALSE]
  IN CASE t.pc = 0 ->
            \* lines 456-459: the test of m_dofs_per_element, the counter's tick
            [r EXCEPT !.t.pc = 461]
       [] t.pc = 461 ->
            [r EXCEPT !.t.pc = IF Len(as.freelist) # 0 THEN 463 ELSE 471]
       [] t.pc = 463 ->
            [r EXCEPT !.as.active_elements = @ + 1, !.t.pc = 464]
       [] t.pc = 464 ->
            IF Len(as.freelist) = 0
            THEN [r EXCEPT !.ub = TRUE]
            ELSE [r EXCEPT !.t.result = as.freelist[Len(as.freelist)], !.t.pc = 465]
       [] t.pc = 465 ->
            IF Len(as.freelist) = 0
            THEN [r EXCEPT !.ub = TRUE]
            ELSE [r EXCEPT !.as.freelist = pop_back(@), !.t.pc = 466]
       [] t.pc = 466 ->
            [r EXCEPT !.returned = t.result * m_dofs_per_element, !.t = Idle]
       [] t.pc = 471 ->
            [r EXCEPT !.t.avl_space = Len(as.rho) \div m_dofs_per_element,
                      !.t.pc = 473]
       [] t.pc = 473 ->
            [r EXCEPT !.t.pc = IF as.active_elements = t.avl_space THEN 475 ELSE 480]
       [] t.pc = 475 ->
            \* lines 475-477; no rho_dof_shift_listener is registered
            [r EXCEPT !.as.rho = resize(@, 2 * Len(@)), !.t.pc = 480]
       [] t.pc = 480 ->
            [r EXCEPT !.returned = as.active_elements * m_dofs_per_element,
                      !.as.active_elements = @ + 1,
                      !.t = Idle]

\* the two callers start
Fork ==
  /\ ~ub
  /\ last.name \in {"none", "resize", "allocate_element", "deallocate_element"}
  /\ \E locked \in BOOLEAN :
       last' = [name |-> "threads", locked |-> locked, callers |-> <<Idle, Idle>>]
  /\ held' = SelectSeq(held, LAMBDA x : x # NoSlab)
  /\ UNCHANGED <<active_elements, freelist, rho, advected_particles, charges, config, ub>>

\* the number of callers inside a call
Inside == Cardinality({ c \in 1 .. 2 : last.callers[c].pc # 0 })

\* one caller executes its next statement; it enters a call only while the
\* slabs handed out and the calls under way stay below MaxSlabs and, under
\* the lock, only when no call is under way
ThreadStatement ==
  /\ ~ub
  /\ last.name = "threads"
  /\ \E c \in 1 .. 2 :
       /\ last.callers[c].pc = 0 =>
            /\ Len(held) + Inside < MaxSlabs
            /\ last.locked => Inside = 0
       /\ LET r == allocate_element_statement(AllocState, last.callers[c])
          IN /\ active_elements' = r.as.active_elements
             /\ freelist' = r.as.freelist
             /\ rho' = r.as.rho
             /\ ub' = r.ub
             /\ last' = [last EXCEPT !.callers[c] = r.t]
             /\ held' = IF r.returned = NoSlab THEN held ELSE Append(held, r.returned)
  /\ UNCHANGED <<advected_particles, charges, config>>

NextThreads ==
  \/ RoundResize
  \/ RoundAllocate
  \/ RoundDeallocate
  \/ Fork
  \/ ThreadStatement

SpecThreads == Init /\ [][NextThreads]_vars

(***************************************************************************)
(* C25: allocate_element is not reentrant.                                 *)
(***************************************************************************)
\* no call is under way
Quiescent == last.name = "threads" /\ Inside = 0

\* two entries of held are the same offset
SameOffsetTwice ==
  \E i, j \in 1 .. Len(held) : i # j /\ held[i] = held[j]

\* C25: when whole calls of allocate_element exclude each other, no two
\* callers are handed the same slab offset, no call reads an empty free
\* list, and between calls active_elements is the number of slabs handed
\* out; without the exclusion, interleaved statements of two calls reach
\* states where this fails.
C25_ExclusiveCallsKeepBookkeeping ==
  (last.name = "threads" /\ last.locked) =>
     /\ ~ub
     /\ ~SameOffsetTwice
     /\ Quiescent => active_elements = Len(held)

\* two interleaved calls have both returned the same offset
C25_InterleavedCallsShareSlab ==
  /\ Quiescent
  /\ ~last.locked
  /\ ~ub
  /\ SameOffsetTwice

(***************************************************************************)
(* C26: the flux coefficients.                                             *)
(***************************************************************************)
\* 2 * Den(alpha) times faceJacobian * (-n.v) * (alpha * [1 if outflow else
\* 0] + (1 - alpha) * 0.5), outflow being n.v > 0
OutflowWeightedCoeff(face_jacobian, n_dot_v, alpha) ==
  face_jacobian * (0 - n_dot_v)
    * (2 * Num(alpha) * (IF n_dot_v > 0 THEN 1 ELSE 0) + (Den(alpha) - Num(alpha)))

\* C26: the interior coefficient of a face is faceJacobian * (-n.v) *
\* (alpha * [1 if outflow else 0] + (1 - alpha) * 0.5).  On a face that has
\* no connection before and after calculate_fluxes and on which the flow is
\* inward, the accumulator at the face's node therefore holds this
\* coefficient times the element's own DOF there.
C26_UpwindWeightOnOutflow ==
  (last.name = "calculate_fluxes" /\ Completed) =>
    \A pn \in 1 .. Len(last.parts) :
      \A k \in 1 .. Len(last.parts[pn].m_elements) : \A fn \in Faces :
        LET el == last.parts[pn].m_elements[k]
            side == face_lookup(el.m_id, fn).flux_face
            n_dot_v == last.velocities[pn] * side.normal
            ili == el.m_start_index + side.index_list[1] + 1
        IN ( /\ n_dot_v < 0
             /\ el.m_connections[fn + 1] = INVALID_ELEMENT
             /\ advected_particles[pn].m_elements[k].m_connections[fn + 1]
                  = INVALID_ELEMENT )
           => last.result.fluxes[ili]
                = OutflowWeightedCoeff(side.face_jacobian, n_dot_v, m_upwind_alpha)
                    * last.rho[ili]

(***************************************************************************)
(* C27: the faces across which calculate_fluxes activates.                 *)
(***************************************************************************)
\* face fn of el, an element of particle pn when the last call was made, is
\* a face towards the mesh element en that is not a boundary face, had no
\* connection, and has the flow of the last call going outward
ActivationFace(pn, el, fn, en) ==
  /\ ~face_lookup(el.m_id, fn).is_boundary
  /\ m_neighbor(el.m_id, fn) = en
  /\ el.m_connections[fn + 1] = INVALID_ELEMENT
  /\ last.velocities[pn] * face_lookup(el.m_id, fn).flux_face.normal > 0

\* C27: every element calculate_fluxes activates lies across an
\* ActivationFace of an element of the patch: a face that is not a domain
\* boundary, whose connection entry was INVALID and on which n.v > 0.  No
\* element is activated across an inflow face, a boundary face or a face
\* that was connected.
C27_ActivationOnlyAcrossOpenOutflow ==
  (last.name = "calculate_fluxes" /\ ~ub) =>
    \A pn \in 1 .. Len(last.parts) : \A k \in Activated(pn) :
      \E j \in 1 .. Len(last.parts[pn].m_elements) : \E fn \in Faces :
        ActivationFace(pn, last.parts[pn].m_elements[j], fn,
                       advected_particles[pn].m_elements[k].m_id)

\* calculate_fluxes has activated an element, and has left inactive the
\* neighbour across an unconnected inflow face whose trace is above the
\* activation threshold
C27_ActivatedAndInflowLeftAlone ==
  /\ last.name = "calculate_fluxes"
  /\ ~ub
  /\ \E pn \in 1 .. Len(last.parts) :
       /\ Activated(pn) # {}
       /\ \E j \in 1 .. Len(last.parts[pn].m_elements) : \E fn \in Faces :
            LET el == last.parts[pn].m_elements[j]
            IN /\ m_neighbor(el.m_id, fn) # INVALID_ELEMENT
               /\ el.m_connections[fn + 1] = INVALID_ELEMENT
               /\ last.velocities[pn] * face_lookup(el.m_id, fn).flux_face.normal < 0
               /\ activation_test(TraceMax(last.rho, el, fn),
                                  last.parts[pn].m_shape_function * charges[pn],
                                  m_activation_threshold)
               /\ find_element(advected_particles[pn], m_neighbor(el.m_id, fn)) = 0

(***************************************************************************)
(* C28: connectivity and mesh adjacency.                                   *)
(***************************************************************************)
\* C28: in every patch, an element's connection entry for a face names
\* the mesh neighbour across that face if that neighbour is an element of
\* the patch, so that two elements of a patch that are mesh neighbours are
\* connected to each other through their common face, and every entry that
\* is not INVALID names the mesh neighbour across its face: elements that
\* are not mesh neighbours are not connected.
C28_ConnectivityFollowsAdjacency ==
  ~ub =>
    \A pn \in 1 .. Len(advected_particles) :
      \A k \in 1 .. Len(advected_particles[pn].m_elements) :
        LET el == advected_particles[pn].m_elements[k]
        IN /\ \A fn \in Faces :
                find_element(advected_particles[pn], m_neighbor(el.m_id, fn)) # 0
                  => el.m_connections[fn + 1] = m_neighbor(el.m_id, fn)
           /\ \A c \in 1 .. max_faces :
                el.m_connections[c] # INVALID_ELEMENT
                  => /\ c <= m_faces_per_element
                     /\ el.m_connections[c] = m_neighbor(el.m_id, c - 1)

\* a patch in which dynamic activation has added an element between two
\* elements of the patch, connected through both of its faces
C28_ActivatedBetweenTwo ==
  /\ ~ub
  /\ \E pn \in 1 .. Len(advected_particles) :
       \E k \in 1 .. Len(advected_particles[pn].m_elements) :
          LET el == advected_particles[pn].m_elements[k]
          IN /\ el.m_min_life > 0
             /\ \A fn \in Faces :
                  /\ el.m_connections[fn + 1] # INVALID_ELEMENT
                  /\ find_element(advected_particles[pn], el.m_connections[fn + 1]) # 0

(***************************************************************************)
(* C29: faces towards a neighbour that is not active.                      *)
(***************************************************************************)
\* face fn of el, an element of particle pn when the last call was made,
\* has a mesh neighbour that was not connected and is not in the patch
\* after the call
NeighbourStaysInactive(pn, el, fn) ==
  /\ m_neighbor(el.m_id, fn) # INVALID_ELEMENT
  /\ el.m_connections[fn + 1] = INVALID_ELEMENT
  /\ find_element(advected_particles[pn], m_neighbor(el.m_id, fn)) = 0

\* index i of the accumulator lies in the slab of an element
InSomeSlab(i) ==
  \E pn \in 1 .. Len(advected_particles) :
    \E k \in 1 .. Len(advected_particles[pn].m_elements) :
       /\ i > advected_particles[pn].m_elements[k].m_start_index
       /\ i <= advected_particles[pn].m_elements[k].m_start_index + m_dofs_per_element

\* C29: for a face whose neighbour is not active before calculate_fluxes
\* and not after it, the accumulator at the face's node holds, if the flow
\* is inward (n.v <= 0), the interior coefficient times the element's own
\* DOF on the face, with nothing for the exterior trace, and zero if the
\* flow is outward; the accumulator is zero outside the slabs of the
\* elements.
C29_InactiveNeighbourFace ==
  (last.name = "calculate_fluxes" /\ Completed) =>
    /\ \A pn \in 1 .. Len(last.parts) :
         \A k \in 1 .. Len(last.parts[pn].m_elements) : \A fn \in Faces :
           LET el == last.parts[pn].m_elements[k]
               side == face_lookup(el.m_id, fn).flux_face
               n_dot_v == last.velocities[pn] * side.normal
               ili == el.m_start_index + side.index_list[1] + 1
           IN NeighbourStaysInactive(pn, el, fn) =>
                last.result.fluxes[ili]
                  = IF n_dot_v <= 0
                    THEN int_coeff(side.face_jacobian, n_dot_v, TRUE, m_upwind_alpha)
                           * last.rho[ili]
                    ELSE 0
    /\ \A i \in 1 .. Len(last.result.fluxes) :
         ~InSomeSlab(i) => last.result.fluxes[i] = 0

\* one call in which an element with nonzero DOFs on both faces has an
\* inactive neighbour across an inflow face and one across an outflow face,
\* and both neighbours stay inactive
C29_InflowAndOutflowOpen ==
  /\ last.name = "calculate_fluxes"
  /\ Completed
  /\ \E pn \in 1 .. Len(last.parts) :
       \E k \in 1 .. Len(last.parts[pn].m_elements) :
          LET el == last.parts[pn].m_elements[k]
          IN /\ last.velocities[pn] # 0
             /\ \A fn \in Faces :
                  /\ NeighbourStaysInactive(pn, el, fn)
                  /\ TraceMax(last.rho, el, fn) > 0
             /\ \E i \in 1 .. Len(last.result.fluxes) : last.result.fluxes[i] # 0

(***************************************************************************)
(* C30: allocate_element with a free list that is not empty.               *)
(***************************************************************************)
\* the last call was an allocate_element on a state whose free list held
\* an entry
AllocatedFromFreeList ==
  /\ last.name \in {"allocate_element", "allocate_element, second round"}
  /\ Len(last.freelist) # 0

\* C30: allocate_element on a state with a nonempty free list returns the
\* start offset of the entry pushed last, removes that entry and no other,
\* raises active_elements by one, leaves rho as it is and does not notify
\* the rho_dof_shift_listener of a change of size.
C30_FreeListLifo ==
  AllocatedFromFreeList =>
     /\ last.result.start_index
          = last.freelist[Len(last.freelist)] * m_dofs_per_element
     /\ freelist = SubSeq(last.freelist, 1, Len(last.freelist) - 1)
     /\ active_elements = last.active_elements + 1
     /\ rho = last.rho
     /\ last.result.note_change_size = <<>>

\* an allocate_element on a free list of two or more entries whose last
\* entry is not its first
C30_ReusedLastPushed ==
  /\ AllocatedFromFreeList
  /\ Len(last.freelist) >= 2
  /\ last.freelist[Len(last.freelist)] # last.freelist[1]
  /\ last.result.start_index \in { held[k] : k \in 1 .. Len(held) }

(***************************************************************************)
(* SpecGrow: a host that sizes the state vector, registers a particle and  *)
(* calls allocate_element and deallocate_element itself, with a            *)
(* rho_dof_shift_listener registered, keeping a record of each call.       *)
(***************************************************************************)
AllocateElement ==
  /\ ~ub
  /\ active_elements + Len(freelist) < MaxSlabs
  /\ LET r == allocate_element(AllocState)
     IN /\ active_elements' = r.as.active_elements
        /\ freelist' = r.as.freelist
        /\ rho' = r.as.rho
        /\ held' = Append(held, r.result)
        /\ RecordResult(TRUE, "allocate_element", <<>>, Allocated(r))
  /\ UNCHANGED <<advected_particles, charges, config, ub>>

\* the filter matrices the engine is constructed with: without rows or
\* without columns, or m_dofs_per_element square with every entry one
FilterData(size1, size2) ==
  [i \in 1 .. size1 |-> [j \in 1 .. size2 |-> 1]]

Filters ==
  { Matrix(size1, size2, FilterData(size1, size2)) :
      size1 \in {0, m_dofs_per_element}, size2 \in {0, m_dofs_per_element} }

\* a gemm that takes every slab of c for a column
gemm_accumulate_every_slab(matrix, n, b, c) ==
  [x \in 1 .. Len(c) |->
     LET e == (x - 1) \div m_dofs_per_element
         i == ((x - 1) % m_dofs_per_element) + 1
     IN IF (e + 1) * m_dofs_per_element <= Len(c) /\ i <= matrix.size1
        THEN c[x] + SumSeq([j \in 1 .. matrix.size2 |->
                              matrix.data[i][j] * b[e * m_dofs_per_element + j]])
        ELSE c[x]]

\* lines 1088-1102: gemm('T', 'N', size1, n, size2, 1, matrix, size2, b,
\* m_dofs_per_element, 1, c, m_dofs_per_element): column e of c, the
\* m_dofs_per_element entries from e * m_dofs_per_element on, becomes
\* matrix * (column e of b) + column e of c, for the first n columns
gemm_accumulate(matrix, n, b, c) ==
  [x \in 1 .. Len(c) |->
     LET e == (x - 1) \div m_dofs_per_element
         i == ((x - 1) % m_dofs_per_element) + 1
     IN IF e < n /\ i <= matrix.size1
        THEN c[x] + SumSeq([j \in 1 .. matrix.size2 |->
                              matrix.data[i][j] * b[e * m_dofs_per_element + j]])
        ELSE c[x]]

\* lines 1074-1106, for a whole rhs vector of rho's size
filtered_rhs(matrix, as, rhs) ==
  IF matrix.size1 # 0 /\ matrix.size2 # 0
  THEN gemm_accumulate(matrix, active_contiguous_elements(as), rhs, as.rho)
  ELSE [x \in 1 .. Len(as.rho) |-> as.rho[x] + rhs[x]]

\* the rhs vectors of the host: one at every node, or at every first node of
\* a slab
RhsVectors(n) ==
  { [x \in 1 .. n |-> IF ((x - 1) % m_dofs_per_element) \in nodes THEN 1 ELSE 0] :
      nodes \in { 0 .. m_dofs_per_element - 1, {0} } }

\* an entry never written holds an indeterminate value, Uninit and what has
\* been added to it
InRhoRange(x) == x <= MaxRho /\ (x < 0 => x <= Uninit + MaxRho)

\* the gemm of lines 1088-1102 stays within rho and rhs
RhsInside(matrix, as) ==
  (matrix.size1 # 0 /\ matrix.size2 # 0) => GemmInside(as, active_contiguous_elements(as))

ApplyRhsVector ==
  /\ ~ub
  /\ Len(rho) > 0
  /\ \E rhs \in RhsVectors(Len(rho)) :
       LET inside == RhsInside(m_filter_matrix, AllocState)
           new == IF inside THEN filtered_rhs(m_filter_matrix, AllocState, rhs) ELSE rho
       IN /\ \A x \in 1 .. Len(new) : InRhoRange(new[x])
          /\ rho' = new
          /\ ub' = ~inside
          /\ RecordResult(TRUE, "apply_advective_particle_rhs", <<>>,
                          [NoResult EXCEPT !.rhs = rhs])
  /\ UNCHANGED <<active_elements, freelist, advected_particles, charges, config, held>>

InitGrow ==
  /\ active_elements = 0
  /\ freelist = <<>>
  /\ rho = <<>>
  /\ advected_particles = <<>>
  /\ charges = <<>>
  /\ m_activation_threshold = ActivationThreshold
  /\ m_kill_threshold = KillThreshold
  /\ m_upwind_alpha = UpwindAlpha
  /\ m_filter_matrix \in Filters
  /\ held = <<>>
  /\ ub = FALSE
  /\ last = NoCall

NextGrow ==
  \/ Resize(TRUE)
  \/ AddAdvectiveParticle(TRUE, MaxParticles, CoveringSeqs, FlatSample)
  \/ AllocateElement
  \/ DeallocateElement(TRUE)
  \/ ApplyRhsVector

SpecGrow == InitGrow /\ [][NextGrow]_vars

(***************************************************************************)
(* C31: when allocate_element grows rho.                                   *)
(***************************************************************************)
\* the state allocate_element was called on had an empty free list and as
\* many live slabs as rho has room for
FullBefore ==
  /\ Len(last.freelist) = 0
  /\ last.active_elements = Len(last.rho) \div m_dofs_per_element

\* C31: allocate_element grows rho exactly when the free list is empty and
\* active_elements equals rho.size() / dofs_per_element: rho is then twice
\* as long, every entry below the old size has kept its value, and the
\* listener has been notified once, of the new size.  In every other case
\* rho is as it was and the listener has not been notified.
C31_GrowthOnlyWhenFull ==
  last.name = "allocate_element" =>
     IF FullBefore
     THEN /\ Len(rho) = 2 * Len(last.rho)
          /\ \A i \in 1 .. Len(last.rho) : rho[i] = last.rho[i]
          /\ last.result.note_change_size = << Len(rho) >>
     ELSE /\ rho = last.rho
          /\ last.result.note_change_size = <<>>

\* an allocate_element that doubled a rho holding a particle's nonzero
\* values
C31_GrownWithContent ==
  /\ last.name = "allocate_element"
  /\ FullBefore
  /\ Len(rho) > Len(last.rho)
  /\ \E i \in 1 .. Len(last.rho) : last.rho[i] > 0

(***************************************************************************)
(* C32: what apply_advective_particle_rhs changes.                         *)
(***************************************************************************)
ZeroDimension(matrix) == matrix.size1 = 0 \/ matrix.size2 = 0

\* the entries of rho from the slab numbered e on
Beyond(r, e) == { x \in 1 .. Len(r) : x > e * m_dofs_per_element }

\* C32: apply_advective_particle_rhs changes nothing but the contents of
\* rho: the patches, the free list, active_elements and rho.size() are as
\* before the call.  With a filter matrix of a zero dimension the new rho is
\* rho + rhs at every entry; with a filter of nonzero dimensions every entry
\* beyond the first active_elements + freelist.size() slabs is as before.
C32_RhsChangesOnlyRho ==
  (last.name = "apply_advective_particle_rhs" /\ ~ub) =>
     /\ advected_particles = last.parts
     /\ freelist = last.freelist
     /\ active_elements = last.active_elements
     /\ Len(rho) = Len(last.rho)
     /\ IF ZeroDimension(m_filter_matrix)
        THEN \A x \in 1 .. Len(rho) : rho[x] = last.rho[x] + last.result.rhs[x]
        ELSE \A x \in Beyond(rho, active_elements + Len(freelist)) :
                rho[x] = last.rho[x]

\* a filtered step on a state with a patch, a free slab and a slab beyond
\* them where the rhs is not zero, which changed rho
C32_FilteredWithSlabsBeyond ==
  /\ last.name = "apply_advective_particle_rhs"
  /\ ~ZeroDimension(m_filter_matrix)
  /\ Len(advected_particles) > 0
  /\ Len(freelist) > 0
  /\ \E x \in Beyond(rho, active_elements + Len(freelist)) : last.result.rhs[x] # 0
  /\ rho # last.rho

\* an unfiltered step on a state with a patch and a slab beyond the live and
\* free ones
C32_UnfilteredWholeVector ==
  /\ last.name = "apply_advective_particle_rhs"
  /\ ZeroDimension(m_filter_matrix)
  /\ m_filter_matrix.size1 # m_filter_matrix.size2
  /\ Len(advected_particles) > 0
  /\ Beyond(rho, active_elements + Len(freelist)) # {}
  /\ rho # last.rho

(***************************************************************************)
(* The reconstruction targets of rec_target.hpp and their protocol.  A     *)
(* call of the protocol is a record; a target is the vectors it writes,    *)
(* the scale factors of the j target and the log of the calls each target  *)
(* has received, in the order of their arrival.                            *)
(***************************************************************************)
\* PICAlgorithm::dimensions_velocity
DimensionsVelocity == 2

call_begin_particle(pn) ==
  [op |-> "begin_particle", pn |-> pn, en |-> 0, start_idx |-> 0, rho_contrib |-> <<>>]
call_add_shape_on_element(en, start_idx, rho_contrib) ==
  [op |-> "add_shape_on_element", pn |-> 0, en |-> en, start_idx |-> start_idx,
   rho_contrib |-> rho_contrib]
call_end_particle(pn) ==
  [op |-> "end_particle", pn |-> pn, en |-> 0, start_idx |-> 0, rho_contrib |-> <<>>]

\* lines 292-297: the add_shape_on_element calls for the elements of one
\* particle from position k on; c holds the calls made and whether a slab
\* outside rho was read
RECURSIVE target_element_calls(_, _, _, _)
target_element_calls(c, r, els, k) ==
  IF c.ub \/ k > Len(els)
  THEN c
  ELSE IF ~InRho(r, els[k].m_start_index)
       THEN [c EXCEPT !.ub = TRUE]
       ELSE target_element_calls(
              [c EXCEPT !.calls =
                 Append(@, call_add_shape_on_element(els[k].m_id, m_start(els[k].m_id),
                                                slab(r, els[k].m_start_index)))],
              r, els, k + 1)

\* lines 282-300: the calls reconstruct_densities_on_target makes on its
\* target, for the particles of the slice from position n on
RECURSIVE target_calls(_, _, _, _, _)
target_calls(c, r, parts, pslice, n) ==
  IF c.ub \/ n > Len(pslice)
  THEN c
  ELSE LET pn == pslice[n]
           begun == [c EXCEPT !.calls = Append(@, call_begin_particle(pn))]
           added == target_element_calls(begun, r, parts[pn + 1].m_elements, 1)
       IN IF added.ub
          THEN added
          ELSE target_calls([added EXCEPT !.calls = Append(@, call_end_particle(pn))],
                            r, parts, pslice, n + 1)

\* j_reconstruction_target::begin_particle that reads the velocities without
\* the stride
j_begin_particle_unstrided(velocities, pn) ==
  [axis \in 1 .. DimensionsVelocity |-> velocities[pn + axis]]

\* rec_target.hpp, lines 111-115: m_scale_factors after begin_particle(pn)
j_begin_particle(velocities, pn) ==
  [axis \in 1 .. DimensionsVelocity |-> velocities[pn * DimensionsVelocity + axis]]

\* rec_target.hpp, lines 117-128: for every axis, the subslice of the target
\* from start_idx * D + axis with stride D gains m_scale_factors[axis] *
\* rho_contrib
j_add_shape_on_element(target_vector, m_scale_factors, start_idx, rho_contrib) ==
  [y \in 1 .. Len(target_vector) |->
     LET d == (y - 1) - start_idx * DimensionsVelocity
     IN IF d >= 0 /\ d < Len(rho_contrib) * DimensionsVelocity
        THEN target_vector[y]
               + m_scale_factors[(d % DimensionsVelocity) + 1]
                   * rho_contrib[(d \div DimensionsVelocity) + 1]
        ELSE target_vector[y]]

\* rec_target.hpp, lines 60-64 and 101-109: the constructors clear the
\* vectors and set the scale factors to zero
constructed_targets(rho_vec, j_vec) ==
  [rho |-> rho_reconstruction_target(rho_vec),
   j |-> [y \in 1 .. Len(j_vec) |-> 0],
   m_scale_factors |-> [axis \in 1 .. DimensionsVelocity |-> 0],
   log |-> <<>>]

\* rho_reconstruction_target, lines 66-79
rho_target_call(t, call) ==
  [t EXCEPT !.log = Append(@, <<"rho", call>>),
            !.rho = IF call.op = "add_shape_on_element"
                    THEN rho_target_add_shape_on_element(@, call.start_idx, call.rho_contrib)
                    ELSE @]

\* j_reconstruction_target, lines 111-131
j_target_call(t, velocities, call) ==
  [t EXCEPT !.log = Append(@, <<"j", call>>),
            !.m_scale_factors = IF call.op = "begin_particle"
                                THEN j_begin_particle(velocities, call.pn)
                                ELSE @,
            !.j = IF call.op = "add_shape_on_element"
                  THEN j_add_shape_on_element(@, t.m_scale_factors, call.start_idx,
                                              call.rho_contrib)
                  ELSE @]

\* a chained target that calls its second target first
chained_target_call_second_first(t, velocities, call) ==
  rho_target_call(j_target_call(t, velocities, call), call)

\* chained_reconstruction_target, lines 143-175: every call goes to
\* m_target1 and then to m_target2
chained_target_call(t, velocities, call) ==
  j_target_call(rho_target_call(t, call), velocities, call)

\* the target receives the calls from position i on
RECURSIVE on_target(_, _, _, _, _)
on_target(t, kind, velocities, calls, i) ==
  IF i > Len(calls)
  THEN t
  ELSE on_target(
         CASE kind = "rho" -> rho_target_call(t, calls[i])
           [] kind = "j" -> j_target_call(t, velocities, calls[i])
           [] OTHER -> chained_target_call(t, velocities, calls[i]),
         kind, velocities, calls, i + 1)

\* a size test that lets every vector pass
correct_size_unchecked(v, size) == TRUE

\* lines 201, 203-204, 223-224 and 238: the vector has the size asked for
correct_size(v, size) == Len(v) = size

\* what the host sees of a reconstruction: whether it threw, its two
\* vectors, the log of the targets and whether a slab outside rho was read
Reconstructed(err, rho_vec, j_vec, log, out) ==
  [err |-> err, rho |-> rho_vec, j |-> j_vec, log |-> log, ub |-> out]

\* rec_target.hpp, lines 196-243: reconstruct_densities, reconstruct_j and
\* reconstruct_rho; the vectors share their storage with the host's
reconstruct(method, r, parts, rho_vec, j_vec, velocities, pslice) ==
  IF method # "reconstruct_j" /\ ~correct_size(rho_vec, MeshNodes)
  THEN Reconstructed(TRUE, rho_vec, j_vec, <<>>, FALSE)
  ELSE IF method # "reconstruct_rho"
          /\ ~correct_size(j_vec, MeshNodes * DimensionsVelocity)
       THEN Reconstructed(TRUE, rho_vec, j_vec, <<>>, FALSE)
       ELSE LET made == constructed_targets(rho_vec, j_vec)
                c == target_calls([calls |-> <<>>, ub |-> FALSE], r, parts, pslice, 1)
                kind == CASE method = "reconstruct_rho" -> "rho"
                          [] method = "reconstruct_j" -> "j"
                          [] OTHER -> "chained"
                t == on_target(made, kind, velocities, c.calls, 1)
            IN Reconstructed(FALSE,
                             IF kind = "j" THEN rho_vec ELSE t.rho,
                             IF kind = "rho" THEN j_vec ELSE t.j,
                             t.log, c.ub)

\* the velocities of particle_count particles, all different
VelocityVectors(particle_count) ==
  { [x \in 1 .. particle_count * DimensionsVelocity |-> x] }

\* the sizes of the rho and j vectors the host passes: right, or one of
\* them an entry short
HostVectorSizes ==
  { <<MeshNodes, MeshNodes * DimensionsVelocity>>,
    <<MeshNodes - 1, MeshNodes * DimensionsVelocity>>,
    <<MeshNodes, MeshNodes * DimensionsVelocity - 1>> }

\* a vector of the host, holding what it held before
HostVector(size) == [y \in 1 .. size |-> Uninit]

\* a reconstruction changes no state of the engine: the host makes one and
\* goes on
Reconstructing ==
  last.name \in {"reconstruct_densities", "reconstruct_j", "reconstruct_rho",
                 "add_shape_on_element"}

Methods == {"reconstruct_densities", "reconstruct_j", "reconstruct_rho"}

Reconstruct ==
  /\ ~ub
  /\ ~Reconstructing
  /\ \E method \in Methods :
       \E pslice \in Slices(Len(advected_particles)) :
          \E velocities \in VelocityVectors(Len(advected_particles)) :
             \E sizes \in HostVectorSizes :
                   LET res == reconstruct(method, rho, advected_particles,
                                          HostVector(sizes[1]), HostVector(sizes[2]),
                                          velocities, pslice)
                   IN /\ ub' = res.ub
                      /\ RecordResult(TRUE, method, velocities,
                                      [NoResult EXCEPT !.err = res.err,
                                                       !.pslice = pslice,
                                                       !.target = res.rho,
                                                       !.j = res.j,
                                                       !.log = res.log])
  /\ UNCHANGED <<active_elements, freelist, rho, advected_particles, charges,
                 config, held>>

\* The host makes a j target on a vector of its own and calls
\* add_shape_on_element on it before any begin_particle.
AddShapeBeforeBegin ==
  /\ ~ub
  /\ ~Reconstructing
  /\ \E velocities \in VelocityVectors(1) :
       \E en \in Elements :
          \E rho_contrib \in AnySlab :
             LET made == constructed_targets(
                           <<>>, HostVector(MeshNodes * DimensionsVelocity))
                 t == j_target_call(made, velocities,
                                    call_add_shape_on_element(en, m_start(en), rho_contrib))
             IN RecordResult(TRUE, "add_shape_on_element", velocities,
                             [NoResult EXCEPT !.j = t.j, !.log = t.log])
  /\ UNCHANGED <<active_elements, freelist, rho, advected_particles, charges,
                 config, held, ub>>

(***************************************************************************)
(* SpecTarget: a host that sizes the state vector, registers up to         *)
(* MaxHostParticles particles and reconstructs rho and j on vectors of its *)
(* own, of the right or of a wrong size.                                   *)
(***************************************************************************)
NextTarget ==
  \/ Resize(TRUE)
  \/ AddAdvectiveParticle(TRUE, MaxHostParticles, CoveringSeqs, FlatSample)
  \/ Reconstruct
  \/ AddShapeBeforeBegin

SpecTarget == Init /\ [][NextTarget]_vars

(***************************************************************************)
(* C33: the target protocol.                                               *)
(***************************************************************************)
\* the calls the driver made, read off the log: with the chained target
\* every call is logged twice, by the first target and then by the second
DriverCalls(method, log) ==
  IF method = "reconstruct_densities"
  THEN [i \in 1 .. (Len(log) \div 2) |-> log[2 * i - 1][2]]
  ELSE [i \in 1 .. Len(log) |-> log[i][2]]

\* the number of calls made for the first n particles of the slice
RECURSIVE CallsBefore(_, _, _)
CallsBefore(parts, pslice, n) ==
  IF n = 0 THEN 0
  ELSE CallsBefore(parts, pslice, n - 1) + Len(parts[pslice[n] + 1].m_elements) + 2

\* the log of a single target names that target only; the log of the
\* chained target holds every call twice, the first target's entry first
ForwardedInOrder(method, log) ==
  CASE method = "reconstruct_rho" -> \A i \in 1 .. Len(log) : log[i][1] = "rho"
    [] method = "reconstruct_j" -> \A i \in 1 .. Len(log) : log[i][1] = "j"
    [] OTHER ->
         /\ Len(log) % 2 = 0
         /\ \A i \in 1 .. (Len(log) \div 2) :
              /\ log[2 * i - 1][1] = "rho"
              /\ log[2 * i][1] = "j"
              /\ log[2 * i][2] = log[2 * i - 1][2]

\* C33: the calls of reconstruct_densities_on_target are, for each particle
\* pn of the slice in slice order, begin_particle(pn), one
\* add_shape_on_element per active element of pn in the order of the patch,
\* with the element's id, its mesh node start and its slab of rho, and
\* end_particle(pn), and no other call: every add_shape_on_element lies
\* inside one bracket and brackets do not nest or interleave.  The chained
\* target hands every call to its first target and then to its second.
C33_TargetProtocol ==
  (last.name \in Methods /\ ~last.result.err /\ ~ub) =>
     LET calls == DriverCalls(last.name, last.result.log)
         pslice == last.result.pslice
     IN /\ ForwardedInOrder(last.name, last.result.log)
        /\ Len(calls) = CallsBefore(advected_particles, pslice, Len(pslice))
        /\ \A n \in 1 .. Len(pslice) :
             LET els == advected_particles[pslice[n] + 1].m_elements
                 at == CallsBefore(advected_particles, pslice, n - 1)
             IN /\ calls[at + 1] = call_begin_particle(pslice[n])
                /\ \A k \in 1 .. Len(els) :
                     calls[at + 1 + k]
                       = call_add_shape_on_element(els[k].m_id, m_start(els[k].m_id),
                                                   slab(rho, els[k].m_start_index))
                /\ calls[at + Len(els) + 2] = call_end_particle(pslice[n])

\* a reconstruction through the chained target over two particles, the
\* higher number first, of which one holds two elements
C33_ChainedTwoParticles ==
  /\ last.name = "reconstruct_densities"
  /\ ~last.result.err
  /\ ~ub
  /\ last.result.pslice = <<1, 0>>
  /\ \E pn \in 1 .. 2 : Len(advected_particles[pn].m_elements) = 2
  /\ Len(last.result.log) >= 10

(***************************************************************************)
(* C34: the current density is the velocity-weighted charge density.       *)
(***************************************************************************)
\* the sum, over the particles at the first n positions of the slice, of
\* the particle's velocity along axis times its contribution to rho at
\* node i of mesh element en
RECURSIVE VelocityWeighted(_, _, _, _, _, _, _, _)
VelocityWeighted(r, parts, velocities, pslice, en, i, axis, n) ==
  IF n = 0 THEN 0
  ELSE LET pn == pslice[n]
           els == parts[pn + 1].m_elements
       IN velocities[pn * DimensionsVelocity + axis + 1]
            * ElementSum(r, els, en, i, Len(els))
          + VelocityWeighted(r, parts, velocities, pslice, en, i, axis, n - 1)

\* C34: after reconstruct_densities, j at node n and axis a, entry n * D + a,
\* is the sum over the particles of the slice of velocities[pn * D + a]
\* times the particle's contribution to rho at n; and a contribution added
\* to a j target before any begin_particle leaves the target zero.
C34_CurrentIsVelocityTimesCharge ==
  /\ (last.name = "reconstruct_densities" /\ ~last.result.err /\ ~ub) =>
        /\ Len(last.result.j) = MeshNodes * DimensionsVelocity
        /\ \A en \in Elements : \A i \in 1 .. m_dofs_per_element :
             \A axis \in 0 .. (DimensionsVelocity - 1) :
                last.result.j[(m_start(en) + i - 1) * DimensionsVelocity + axis + 1]
                  = VelocityWeighted(rho, advected_particles, last.velocities,
                                     last.result.pslice, en, i, axis,
                                     Len(last.result.pslice))
  /\ last.name = "add_shape_on_element" =>
        /\ Len(last.result.j) = MeshNodes * DimensionsVelocity
        /\ \A y \in 1 .. Len(last.result.j) : last.result.j[y] = 0

\* a reconstruction of rho and j over two particles that both hold a
\* nonzero value at the same node of the same mesh element
C34_TwoParticlesOneNode ==
  /\ last.name = "reconstruct_densities"
  /\ ~last.result.err
  /\ ~ub
  /\ Len(last.result.pslice) = 2
  /\ \E en \in Elements : \E i \in 1 .. m_dofs_per_element :
       /\ ElementSum(rho, advected_particles[1].m_elements, en, i,
                     Len(advected_particles[1].m_elements)) # 0
       /\ ElementSum(rho, advected_particles[2].m_elements, en, i,
                     Len(advected_particles[2].m_elements)) # 0
       /\ last.result.j[(m_start(en) + i - 1) * DimensionsVelocity + 2] > 4

(***************************************************************************)
(* C40: vectors of the wrong size.                                         *)
(***************************************************************************)
\* the last call was handed a rho or a j vector of the wrong size
WrongSize ==
  \/ last.name # "reconstruct_j" /\ Len(last.result.target) # MeshNodes
  \/ last.name # "reconstruct_rho"
       /\ Len(last.result.j) # MeshNodes * DimensionsVelocity

\* C40: reconstruct_densities, reconstruct_j and reconstruct_rho answer a
\* rho vector that is not MeshNodes long, or a j vector that is not
\* MeshNodes * DimensionsVelocity long, with an error; both vectors then
\* hold what they held before the call and no target has received a call.
C40_WrongSizeRejectedUntouched ==
  (last.name \in Methods /\ WrongSize) =>
     /\ last.result.err
     /\ last.result.target = HostVector(Len(last.result.target))
     /\ last.result.j = HostVector(Len(last.result.j))
     /\ last.result.log = <<>>

\* reconstruct_densities over a particle with a rho vector of the right
\* size and a j vector that is too short
C40_ShortCurrentVector ==
  /\ last.name = "reconstruct_densities"
  /\ Len(last.result.target) = MeshNodes
  /\ Len(last.result.j) # MeshNodes * DimensionsVelocity
  /\ Len(last.result.pslice) > 0
  /\ last.result.err

(***************************************************************************)
(* C35: the allocator's partition of the slab numbers.                     *)
(***************************************************************************)
\* the numbers of the slabs handed out and not given back
LiveSlabs == { held[k] \div m_dofs_per_element : k \in 1 .. Len(held) }

FreeSlabs == { freelist[k] : k \in 1 .. Len(freelist) }

\* C35: after any sequence of allocate_element and deallocate_element calls
\* that deallocates live slabs only, the free list names no slab twice and
\* no live slab, and the live slabs and the free-list entries together are
\* exactly the slab numbers 0 .. active_elements + freelist.size() - 1: every
\* live slab is among the first active_elements + freelist.size() slabs.
C35_AllocatorPartition ==
  /\ \A j, k \in 1 .. Len(freelist) : freelist[j] = freelist[k] => j = k
  /\ LiveSlabs \cap FreeSlabs = {}
  /\ LiveSlabs \cup FreeSlabs = 0 .. (active_elements + Len(freelist) - 1)
  /\ Cardinality(LiveSlabs) = active_elements

\* two slabs on the free list below a live slab, after the then last slab
\* was given back without being put on the free list
C35_LiveAboveTwoFree ==
  /\ Len(freelist) = 2
  /\ \E k \in 1 .. Len(held) :
       \A j \in 1 .. Len(freelist) : held[k] \div m_dofs_per_element > freelist[j]
  /\ active_elements + Len(freelist) < Len(rho) \div m_dofs_per_element
  /\ active_elements >= 1

(***************************************************************************)
(* C36: active_elements counts the elements the patches hold.              *)
(***************************************************************************)
\* the number of ActiveElements held by the particles from number pn down
RECURSIVE ElementsHeld(_, _)
ElementsHeld(parts, pn) ==
  IF pn = 0 THEN 0
  ELSE Len(parts[pn].m_elements) + ElementsHeld(parts, pn - 1)

\* C36: after completed add_advective_particle, perform_reconstructor_upkeep,
\* note_move and note_change_size calls, active_elements is the number of
\* ActiveElements held by all particles of advected_particles.
C36_ActiveElementsCountsPatches ==
  ~ub => active_elements = ElementsHeld(advected_particles, Len(advected_particles))

(***************************************************************************)
(* C37: what one calculate_fluxes call adds to a patch.                    *)
(***************************************************************************)
\* the positions the last call, a calculate_fluxes, appended to patch pn
Appended(pn) ==
  (Len(last.parts[pn].m_elements) + 1) .. Len(advected_particles[pn].m_elements)

\* mesh element en is a neighbour of an element of the patch p
NextToPatch(p, en) ==
  \E q \in 1 .. Len(p.m_elements) : \E fn \in Faces :
     m_neighbor(p.m_elements[q].m_id, fn) = en

\* C37: with a positive activation threshold a completed calculate_fluxes
\* has left the elements that were in a patch at their positions and has
\* appended only mesh neighbours of those elements that were not in the
\* patch, each once: no element is appended because of an element that was
\* itself appended during the call.
C37_AppendsOnlyNeighboursOfStartPatch ==
  (last.name = "calculate_fluxes" /\ ~ub /\ ~last.result.err
     /\ Num(m_activation_threshold) > 0) =>
     \A pn \in 1 .. Len(last.parts) :
        LET pre == last.parts[pn].m_elements
            post == advected_particles[pn].m_elements
        IN /\ Len(post) >= Len(pre)
           /\ \A k \in 1 .. Len(pre) : post[k].m_id = pre[k].m_id
           /\ \A k \in Appended(pn) :
                /\ NextToPatch(last.parts[pn], post[k].m_id)
                /\ find_element(last.parts[pn], post[k].m_id) = 0
                /\ \A k2 \in Appended(pn) : post[k2].m_id = post[k].m_id => k2 = k

\* a call that appended an element whose neighbour on the outflow side is
\* a mesh element outside the patch
C37_AppendedFacesInactiveOutflow ==
  /\ last.name = "calculate_fluxes"
  /\ ~ub
  /\ ~last.result.err
  /\ \E pn \in 1 .. Len(last.parts) : \E k \in Appended(pn) :
       LET v == last.velocities[pn]
           beyond == m_neighbor(advected_particles[pn].m_elements[k].m_id,
                                IF v > 0 THEN 1 ELSE 0)
       IN /\ v # 0
          /\ beyond # INVALID_ELEMENT
          /\ find_element(advected_particles[pn], beyond) = 0

(***************************************************************************)
(* C38: a patch holds a mesh element once.                                 *)
(***************************************************************************)
\* C38: for particles constructed from pairwise distinct covering elements,
\* after any sequence of calculate_fluxes and perform_reconstructor_upkeep
\* calls no patch holds two ActiveElements with the same mesh element id.
C38_PatchIdsDistinct ==
  ~ub =>
     \A pn \in 1 .. Len(advected_particles) :
        \A j, k \in 1 .. Len(advected_particles[pn].m_elements) :
           advected_particles[pn].m_elements[j].m_id
             = advected_particles[pn].m_elements[k].m_id => j = k

\* a calculate_fluxes that appended mesh element 0 on slab 0, taken from
\* the free list: the particle was constructed with element 0 on slab 0,
\* the element was retired and has now been activated again
C38_RetiredActivatedAgain ==
  /\ last.name = "calculate_fluxes"
  /\ ~ub
  /\ ~last.result.err
  /\ \E pn \in 1 .. Len(last.parts) : \E k \in Appended(pn) :
       /\ Len(last.freelist) > 0
       /\ last.freelist[Len(last.freelist)] = 0
       /\ advected_particles[pn].m_elements[k].m_start_index = 0
       /\ advected_particles[pn].m_elements[k].m_id = 0

(***************************************************************************)
(* C39: what calculate_fluxes writes.                                      *)
(***************************************************************************)
\* entry i of rho lies in the slab of an element the last call appended
InAppendedSlab(i) ==
  \E pn \in 1 .. Len(last.parts) : \E k \in Appended(pn) :
     LET start == advected_particles[pn].m_elements[k].m_start_index
     IN i > start /\ i <= start + m_dofs_per_element

\* C39: a completed calculate_fluxes has changed no entry of rho outside the
\* slabs of the elements it appended, which hold zero: the slab of every
\* element that was in a patch before the call holds what it held, also
\* when rho was doubled or a freed slab was taken; and with every velocity
\* zero the patches, the free list, active_elements and rho are as before.
C39_FluxesWriteOnlyNewSlabs ==
  (last.name = "calculate_fluxes" /\ ~ub /\ ~last.result.err) =>
     /\ Len(rho) >= Len(last.rho)
     /\ \A i \in 1 .. Len(last.rho) : InAppendedSlab(i) \/ rho[i] = last.rho[i]
     /\ \A i \in 1 .. Len(rho) : InAppendedSlab(i) => rho[i] = 0
     /\ \A pn \in 1 .. Len(last.parts) :
          \A k \in 1 .. Len(last.parts[pn].m_elements) :
             LET el == last.parts[pn].m_elements[k]
             IN /\ advected_particles[pn].m_elements[k].m_start_index = el.m_start_index
                /\ slab(rho, el.m_start_index) = slab(last.rho, el.m_start_index)
     /\ (\A pn \in 1 .. Len(last.velocities) : last.velocities[pn] = 0) =>
           /\ advected_particles = last.parts
           /\ freelist = last.freelist
           /\ active_elements = last.active_elements
           /\ rho = last.rho

\* a call that doubled rho for the element it appended, beside an element
\* whose slab holds a nonzero value
C39_DoubledBesideNonzero ==
  /\ last.name = "calculate_fluxes"
  /\ ~ub
  /\ ~last.result.err
  /\ Len(last.rho) > 0
  /\ Len(rho) = 2 * Len(last.rho)
  /\ \E pn \in 1 .. Len(last.parts) :
       /\ Appended(pn) # {}
       /\ \E k \in 1 .. Len(last.parts[pn].m_elements) :
            \E i \in 1 .. m_dofs_per_element :
               rho[last.parts[pn].m_elements[k].m_start_index + i] > 0
====
